---- MODULE Spec2Model ----
(***************************************************************************)
(* check-ai: the check engine (audit loader, deep tree walker, check       *)
(* evaluator), the scoring engine and the CLI exit status.                 *)
(*                                                                         *)
(* Numbers.  score() computes in IEEE-754 doubles.  The doubles that occur *)
(* (a quotient of two small integers, its products by 10) are modelled     *)
(* bit for bit: a positive double is [hi, lo, e], its 53-bit mantissa      *)
(* split into the upper 26 bits hi (2^25 <= hi < 2^26) and the lower 27    *)
(* bits lo, and e the exponent of the last bit: the value is               *)
(* (hi * 2^27 + lo) * 2^e.  Zero is [hi |-> 0, lo |-> 0, e |-> 0].  The    *)
(* field `normalized` of a score result is Math.round(x) / 10; it is held  *)
(* as the integer Math.round(x), i.e. in tenths.                           *)
(***************************************************************************)
EXTENDS Integers, Sequences, FiniteSets, TLC

VARIABLES
  rootDir,         \* the tree below the directory that is scanned
  auditsDir,       \* what readdirSync(AUDITS_DIR) lists
  audits,          \* scan: the audit modules loaded
  customHandlers,  \* scan: the results of the audits' analyze(), by key
  deep,            \* scan: what deepScan returned
  events,          \* scan: the progress events emitted so far
  cursor,          \* scan: the audits analyzed so far
  findings,        \* the findings pushed so far; the list given to score()
  result,          \* cli: what score(findings) returned
  pc,              \* the step the program is at
  output,          \* cli: the reporter that printed
  exitCode,        \* cli: the status of process.exit, "none" before
  gitLog,          \* what `git log` prints when it is run in the scanned directory
  previous,        \* what the scan before this one returned, and the gitLog it saw
  addedProfiles,   \* the profiles added to the exported TOOL_PROFILES object
  toolScores       \* what scoreAllTools or scoreTools returned

scanVars == <<rootDir, auditsDir, audits, customHandlers, deep, events, cursor>>
cliVars == <<result, output, exitCode>>
envVars == <<gitLog, previous>>
toolVars == <<addedProfiles, toolScores>>
vars == <<scanVars, findings, cliVars, pc, envVars, toolVars>>

---------------------------------------------------------------------------
(* IEEE-754 double arithmetic, round-to-nearest-even.                      *)

HiBits == 26
LoBits == 27
MantBits == HiBits + LoBits

DZero == [hi |-> 0, lo |-> 0, e |-> 0]

\* mantissa + 1, renormalised when it reaches 2^53.
DInc(hi, lo, e) ==
  IF lo + 1 < 2^LoBits THEN [hi |-> hi, lo |-> lo + 1, e |-> e]
  ELSE IF hi + 1 < 2^HiBits THEN [hi |-> hi + 1, lo |-> 0, e |-> e]
  ELSE [hi |-> 2^(HiBits - 1), lo |-> 0, e |-> e + 1]

\* Round to nearest, ties to the even mantissa: `guard` is the first dropped
\* bit, `sticky` says that a later dropped bit is set.
DRound(hi, lo, e, guard, sticky) ==
  IF guard = 1 /\ (sticky \/ lo % 2 = 1) THEN DInc(hi, lo, e)
  ELSE [hi |-> hi, lo |-> lo, e |-> e]

\* The double a / b for integers 0 <= a <= b, 0 < b < 2^16: long division,
\* the quotient of (a * 2^t) / b in [1, 2) taken to 53 bits and a guard bit.
DDiv(a, b) ==
  IF a = 0 THEN DZero
  ELSE LET t  == CHOOSE k \in 0..16 : b <= a * 2^k /\ a * 2^k < 2 * b
           r0 == a * 2^t - b
           c1 == (r0 * 2^12) \div b
           r1 == (r0 * 2^12) % b
           c2 == (r1 * 2^13) \div b
           r2 == (r1 * 2^13) % b
           c3 == (r2 * 2^13) \div b
           r3 == (r2 * 2^13) % b
           c4 == (r3 * 2^14) \div b
           r4 == (r3 * 2^14) % b
       IN  DRound(2^25 + c1 * 2^13 + c2, c3 * 2^14 + c4, -(t + MantBits - 1),
                  (2 * r4) \div b, (2 * r4) % b # 0)

\* The double d * 10: the exact product has 56 or 57 bits, of which the
\* last 3 or 4 are rounded away.
DMul10(d) ==
  IF d.hi = 0 THEN DZero
  ELSE LET lo10 == d.lo * 10
           hi10 == d.hi * 10 + lo10 \div 2^LoBits
           loP  == lo10 % 2^LoBits
           s    == IF hi10 < 2^29 THEN 3 ELSE 4
           drop == loP % 2^s
       IN  DRound(hi10 \div 2^s,
                  (hi10 % 2^s) * 2^(LoBits - s) + loP \div 2^s,
                  d.e + s,
                  drop \div 2^(s - 1),
                  drop % 2^(s - 1) # 0)

\* floor(d) for a double 0 <= d < 2^26.
DFloor(d) ==
  IF d.hi = 0 \/ MantBits + d.e <= 0 THEN 0
  ELSE d.hi \div 2^(HiBits - (MantBits + d.e))

\* The first bit of d after the binary point: 1 iff d - floor(d) >= 1/2.
DHalfBit(d) ==
  LET n == MantBits + d.e
  IN  IF d.hi = 0 \/ n < 0 \/ n >= MantBits THEN 0
      ELSE IF n < HiBits THEN (d.hi \div 2^(HiBits - n - 1)) % 2
      ELSE (d.lo \div 2^(MantBits - n - 1)) % 2

\* Math.round: the nearest integer, ties toward +Infinity.
MathRound(d) == DFloor(d) + DHalfBit(d)

\* d >= n for a double d >= 0 and an integer n >= 0.
DGeqInt(d, n) == DFloor(d) >= n

---------------------------------------------------------------------------
(* scorer.mjs                                                              *)

TIERS ==
  << [min |-> 9, grade |-> "A+", color |-> "green"],
     [min |-> 7, grade |-> "A",  color |-> "green"],
     [min |-> 5, grade |-> "B",  color |-> "yellow"],
     [min |-> 3, grade |-> "C",  color |-> "yellow"],
     [min |-> 1, grade |-> "D",  color |-> "red"],
     [min |-> 0, grade |-> "F",  color |-> "red"] >>

SECTION_ORDER ==
  << "Repo Hygiene", "Grounding Docs", "Testing", "Agent Configs",
     "AI Context", "Prompts & Skills", "MCP", "AI Deps" >>

\* fs.reduce((sum, f) => sum + f.weight, 0)
RECURSIVE SumWeights(_)
SumWeights(fs) ==
  IF fs = <<>> THEN 0 ELSE SumWeights(SubSeq(fs, 1, Len(fs) - 1)) + fs[Len(fs)].weight

IsFound(f) == f.found

\* A breakdown that files every section it did not pre-declare under 'Other'.
SectionOfDeclared(f) ==
  IF \E i \in 1..Len(SECTION_ORDER) : SECTION_ORDER[i] = f.section
  THEN f.section ELSE "Other"

\* f.section || 'Other'
SectionOf(f) == IF f.section = "" THEN "Other" ELSE f.section

\* TIERS.find((t) => normalized >= t.min) || TIERS[TIERS.length - 1]
TierOf(normalized) ==
  IF \E i \in 1..Len(TIERS) : DGeqInt(normalized, TIERS[i].min)
  THEN TIERS[CHOOSE i \in 1..Len(TIERS) :
               /\ DGeqInt(normalized, TIERS[i].min)
               /\ \A j \in 1..(i - 1) : ~DGeqInt(normalized, TIERS[j].min)]
  ELSE TIERS[Len(TIERS)]

\* The section breakdown: the pre-declared sections, then one bucket per
\* other section a finding names.
SectionsOf(fs) ==
  LET names == {SECTION_ORDER[i] : i \in 1..Len(SECTION_ORDER)}
                 \cup {SectionOf(fs[i]) : i \in 1..Len(fs)}
      InSec(s) == SelectSeq(fs, LAMBDA f : SectionOf(f) = s)
  IN  [s \in names |->
        [earned |-> SumWeights(SelectSeq(InSec(s), IsFound)),
         max    |-> SumWeights(InSec(s)),
         items  |-> InSec(s)]]

\* A scorer that forgets the found filter.
EarnedOfAll(fs) == SumWeights(fs)

\* findings.filter((f) => f.found).reduce((sum, f) => sum + f.weight, 0)
EarnedOf(fs) == SumWeights(SelectSeq(fs, IsFound))

\* normalized * 10, rounded by Math.round: the returned score in tenths.
RoundTenths(normalized) == MathRound(DMul10(normalized))

score(fs) ==
  LET maxPoints    == SumWeights(fs)
      earnedPoints == EarnedOf(fs)
      normalized   == IF maxPoints > 0
                      THEN DMul10(DDiv(earnedPoints, maxPoints))
                      ELSE DZero
      tier         == TierOf(normalized)
  IN  [earnedPoints |-> earnedPoints,
       maxPoints    |-> maxPoints,
       normalized   |-> RoundTenths(normalized),
       grade        |-> tier.grade,
       color        |-> tier.color,
       sections     |-> SectionsOf(fs),
       foundCount   |-> Len(SelectSeq(fs, IsFound)),
       totalChecks  |-> Len(fs)]

---------------------------------------------------------------------------
(* Strings and paths.                                                      *)

\* The characters of file names, in UTF-16 code unit order.
Alphabet == "-.0123456789ABCDEFGHIJKLMNOPQRSTUVWXYZ_abcdefghijklmnopqrstuvwxyz"

CharAt(s, i) == SubSeq(s, i, i)

\* c comes before d in that order.
CharLt(c, d) ==
  \E k \in 1..Len(Alphabet) :
    /\ CharAt(Alphabet, k) = c
    /\ \E m \in (k + 1)..Len(Alphabet) : CharAt(Alphabet, m) = d

\* a < b as JavaScript compares strings: by the first differing code unit,
\* a proper prefix first.
StrLt(a, b) ==
  \E i \in 1..Len(b) :
    /\ i <= Len(a) + 1
    /\ SubSeq(a, 1, i - 1) = SubSeq(b, 1, i - 1)
    /\ \/ i = Len(a) + 1
       \/ CharAt(a, i) # CharAt(b, i) /\ CharLt(CharAt(a, i), CharAt(b, i))

\* s.endsWith(p), s.startsWith(p), s.includes(p)
EndsWith(s, p) == Len(p) <= Len(s) /\ SubSeq(s, Len(s) - Len(p) + 1, Len(s)) = p
StartsWith(s, p) == Len(p) <= Len(s) /\ SubSeq(s, 1, Len(p)) = p
Includes(s, p) == \E i \in 1..(Len(s) - Len(p) + 1) : SubSeq(s, i, i + Len(p) - 1) = p

\* The names of a set in ascending order.
RECURSIVE SortNames(_)
SortNames(S) ==
  IF S = {} THEN <<>>
  ELSE LET least == CHOOSE x \in S : \A y \in S : ~StrLt(y, x)
       IN  <<least>> \o SortNames(S \ {least})

\* A loader that keeps the order of the listing.
ListingOrder(s) == s

\* files.sort(): insertion into the sorted rest.
RECURSIVE SortFiles(_)
SortFiles(s) ==
  IF s = <<>> THEN <<>>
  ELSE LET rest == SortFiles(Tail(s))
           k    == Cardinality({i \in 1..Len(rest) : StrLt(rest[i], Head(s))})
       IN  SubSeq(rest, 1, k) \o <<Head(s)>> \o SubSeq(rest, k + 1, Len(rest))

\* A path below the scanned root is the sequence of its segments; the root
\* is <<>>.  relative(rootDir, join(rootDir, ...segments)) on POSIX:
RECURSIVE RelPath(_)
RelPath(p) ==
  IF p = <<>> THEN ""
  ELSE IF Len(p) = 1 THEN p[1]
  ELSE RelPath(SubSeq(p, 1, Len(p) - 1)) \o "/" \o p[Len(p)]

\* The segments of a candidate path such as '.claude/commands'.
RECURSIVE SplitPath(_)
SplitPath(s) ==
  IF ~Includes(s, "/") THEN (IF s = "" THEN <<>> ELSE <<s>>)
  ELSE LET k == CHOOSE i \in 1..Len(s) :
                  CharAt(s, i) = "/" /\ ~Includes(SubSeq(s, 1, i - 1), "/")
       IN  (IF k = 1 THEN <<>> ELSE <<SubSeq(s, 1, k - 1)>>)
             \o SplitPath(SubSeq(s, k + 1, Len(s)))

---------------------------------------------------------------------------
(* The target filesystem.  A path below the scanned root is the sequence   *)
(* of its segments and the root is <<>>.  A tree maps each path that       *)
(* exists to its node: the kind "file", "dir" or "other" (a socket, a      *)
(* FIFO), whether it can be read, and a file's content.  Every path of a   *)
(* tree has its parent in the tree.  A directory that cannot be read       *)
(* cannot be searched either (mode 000).                                   *)

\* JavaScript's null, where a string is expected.
Null == "null"

\* The outcome of a call: a value returned, or an exception thrown.
Thrown == [ok |-> FALSE]
Return(v) == [ok |-> TRUE, v |-> v]

\* JSON.parse: a SyntaxError, or the value.  An object lists its keys in
\* order.
JSyntaxError == [t |-> "SyntaxError"]
JNull == [t |-> "null"]
JUndefined == [t |-> "undefined"]
JObject(keys, vals) == [t |-> "object", keys |-> keys, vals |-> vals]

\* value[key] of a value that is neither null nor undefined
JGet(value, key) ==
  IF value.t = "object" /\ \E i \in 1..Len(value.keys) : value.keys[i] = key
  THEN value.vals[CHOOSE i \in 1..Len(value.keys) : value.keys[i] = key]
  ELSE JUndefined

JTruthy(value) == value.t \notin {"null", "undefined"}

\* A text is held as what the program reads of it: its length, the number
\* of its lines that are not blank, the number of the six quality signals
\* of agents-md-quality it shows, and what JSON.parse makes of it.
Text(length, lines, signals, json) ==
  [length |-> length, lines |-> lines, signals |-> signals, json |-> json]

\* ''
EmptyText == Text(0, 0, 0, JSyntaxError)

FileNode(content) == [kind |-> "file", readable |-> TRUE, content |-> content]
LockedFile(content) == [kind |-> "file", readable |-> FALSE, content |-> content]
DirNode == [kind |-> "dir", readable |-> TRUE, content |-> EmptyText]
LockedDir == [kind |-> "dir", readable |-> FALSE, content |-> EmptyText]
SocketNode == [kind |-> "other", readable |-> TRUE, content |-> EmptyText]

\* Every proper ancestor is a directory that can be searched.
Reachable(t, p) ==
  \A k \in 0..(Len(p) - 1) :
    LET a == SubSeq(p, 1, k)
    IN  a \in DOMAIN t /\ t[a].kind = "dir" /\ t[a].readable

\* fs.existsSync: never throws.
existsSync(t, p) == p \in DOMAIN t /\ Reachable(t, p)

\* fs.statSync: the node's kind, or ENOENT / EACCES thrown.
statSync(t, p) == IF existsSync(t, p) THEN Return(t[p].kind) ELSE Thrown

ChildNames(t, dir) ==
  {p[Len(p)] : p \in {q \in DOMAIN t : Len(q) = Len(dir) + 1 /\ SubSeq(q, 1, Len(dir)) = dir}}

\* fs.readdirSync: the entry names (here in name order), or ENOENT /
\* ENOTDIR / EACCES thrown.
readdirSync(t, dir) ==
  IF existsSync(t, dir) /\ t[dir].kind = "dir" /\ t[dir].readable
  THEN Return(SortNames(ChildNames(t, dir)))
  ELSE Thrown

\* fs.readFileSync(path, 'utf-8'): the content, or ENOENT / EISDIR / EACCES
\* thrown.
readFileSync(t, p) ==
  IF existsSync(t, p) /\ t[p].kind = "file" /\ t[p].readable
  THEN Return(t[p].content)
  ELSE Thrown

---------------------------------------------------------------------------
(* scanner.mjs: the deep tree walker.                                      *)

SKIP_DIRS ==
  { "node_modules", "vendor", "dist", "build", ".git", "__pycache__", ".next",
    ".nuxt", ".output", "coverage", ".turbo", ".vercel", ".netlify", ".cache",
    ".parcel-cache", "target", "out", "bin", "obj" }

\* The hidden directories the walker enters.
WalkedHidden(name) ==
  \/ name = ".claude"
  \/ name = ".agents"
  \/ name = ".windsurf"
  \/ name = ".cursor"
  \/ name = ".github"

\* A walker that enters every directory.
EntersEveryDir(name) == TRUE

\* if (!entry.name.startsWith('.') || entry.name === '.claude' || ...)
EntersDir(name) == ~StartsWith(name, ".") \/ WalkedHidden(name)

\* A walker that takes a pattern for a whole name only.
MatchesWholeName(name, p) == name = p

\* entry.name === p || entry.name.endsWith(p)
MatchesPattern(name, p) == name = p \/ EndsWith(name, p)

\* rel.includes('/') || rel.includes('\\')
IsNested(rel) == Includes(rel, "/") \/ Includes(rel, "\\")

\* function deepScan(rootDir, patterns, maxDepth = 6)
maxDepth == 6

\* A walker that reads one level more.
BeyondDepthLate(depth, limit) == depth > limit + 1

\* if (depth > maxDepth) return;
BeyondDepth(depth, limit) == depth > limit

NoHits == [hits |-> <<>>, filesScanned |-> 0, dirsScanned |-> 0]

AddWalk(a, b) ==
  [hits |-> a.hits \o b.hits,
   filesScanned |-> a.filesScanned + b.filesScanned,
   dirsScanned |-> a.dirsScanned + b.dirsScanned]

\* for (const p of patterns) if (...) results[p].push(rel): the pushes one
\* file makes, one per element of `patterns` it matches.
FileHits(patterns, name, rel) ==
  LET idx == SelectSeq([i \in 1..Len(patterns) |-> i],
                       LAMBDA i : MatchesPattern(name, patterns[i]) /\ IsNested(rel))
  IN  [k \in 1..Len(idx) |-> <<patterns[idx[k]], rel>>]

\* try { entries = readdirSync(dir, { withFileTypes: true }) } catch { return }
WalkEntries(t, dir) ==
  LET entries == readdirSync(t, dir)
  IN  IF entries.ok THEN entries.v ELSE <<>>

\* walk(dir, depth): the pushes and the counter increments it makes.
RECURSIVE walk(_, _, _, _, _)
RECURSIVE walkEntries(_, _, _, _, _, _)
walk(t, patterns, limit, dir, depth) ==
  IF BeyondDepth(depth, limit) THEN NoHits
  ELSE AddWalk([hits |-> <<>>, filesScanned |-> 0, dirsScanned |-> 1],
               walkEntries(t, patterns, limit, dir, depth, WalkEntries(t, dir)))

walkEntries(t, patterns, limit, dir, depth, entries) ==
  IF entries = <<>> THEN NoHits
  ELSE LET name == Head(entries)
           full == dir \o <<name>>
           here ==
             IF name \in SKIP_DIRS THEN NoHits
             ELSE IF t[full].kind = "file"
             THEN [hits |-> FileHits(patterns, name, RelPath(full)),
                   filesScanned |-> 1, dirsScanned |-> 0]
             ELSE IF t[full].kind = "dir" /\ EntersDir(name)
             THEN walk(t, patterns, limit, full, depth + 1)
             ELSE NoHits
       IN  AddWalk(here, walkEntries(t, patterns, limit, dir, depth, Tail(entries)))

\* deepScan(rootDir, patterns): results[p] lists the pushes under p.
deepScan(t, patterns) ==
  LET w == walk(t, patterns, maxDepth, <<>>, 0)
      OfPattern(p) == SelectSeq(w.hits, LAMBDA h : h[1] = p)
  IN  [results |->
         [p \in {patterns[i] : i \in 1..Len(patterns)} |->
            [k \in 1..Len(OfPattern(p)) |-> OfPattern(p)[k][2]]],
       filesScanned |-> w.filesScanned,
       dirsScanned |-> w.dirsScanned]

---------------------------------------------------------------------------
(* scanner.mjs: the utilities shared with the audits, and the probes.      *)

\* readFileSafe(filePath): '' on any failure.
readFileSafe(t, p) ==
  IF readFileSync(t, p).ok THEN readFileSync(t, p).v ELSE EmptyText

\* lineCount(filePath): the lines that are not blank; 0 on any failure.
lineCount(t, p) ==
  IF readFileSync(t, p).ok THEN Return(readFileSync(t, p).v.lines) ELSE Return(0)

\* The entries whose names do not start with '.'.
VisibleItems(names) == Len(SelectSeq(names, LAMBDA n : ~StartsWith(n, ".")))

\* An item count that lets the failure of readdirSync through.
dirItemCountUnguarded(t, p) ==
  IF readdirSync(t, p).ok THEN Return(VisibleItems(readdirSync(t, p).v)) ELSE Thrown

\* dirItemCount(dirPath): 0 on any failure.
dirItemCount(t, p) ==
  IF readdirSync(t, p).ok THEN Return(VisibleItems(readdirSync(t, p).v)) ELSE Return(0)

\* existsAny(fullPath): 'file', 'dir' or null.
existsAny(t, p) ==
  IF ~existsSync(t, p) THEN Return(Null)
  ELSE IF ~statSync(t, p).ok THEN Thrown
  ELSE LET stat == statSync(t, p).v
       IN  Return(IF stat = "file" THEN "file" ELSE IF stat = "dir" THEN "dir" ELSE Null)

NoMatch == [matched |-> Null, detail |-> Null]

\* `${lineCount(full)} line(s)` or `${dirItemCount(full)} item(s)`
CountDetail(p, count, unit) ==
  IF count.ok THEN Return([matched |-> p, detail |-> ToString(count.v) \o unit])
  ELSE Thrown

\* The candidates of an 'any' check from the i-th on: the first that
\* existsAny knows is the match.
RECURSIVE probeAny(_, _, _)
probeAny(t, paths, i) ==
  IF i > Len(paths) THEN Return(NoMatch)
  ELSE LET full == SplitPath(paths[i])
           kind == existsAny(t, full)
       IN  IF ~kind.ok THEN Thrown
           ELSE IF kind.v = "file" THEN CountDetail(paths[i], lineCount(t, full), " line(s)")
           ELSE IF kind.v = "dir" THEN CountDetail(paths[i], dirItemCount(t, full), " item(s)")
           ELSE probeAny(t, paths, i + 1)

\* The candidates of a 'file' or 'dir' check (and of a custom check without
\* a handler) from the i-th on: the first that exists is the match.
RECURSIVE probeStandard(_, _, _)
probeStandard(t, paths, i) ==
  IF i > Len(paths) THEN Return(NoMatch)
  ELSE LET full == SplitPath(paths[i])
       IN  IF existsSync(t, full)
           THEN IF ~statSync(t, full).ok THEN Thrown
                ELSE IF statSync(t, full).v = "file"
                THEN CountDetail(paths[i], lineCount(t, full), " line(s)")
                ELSE IF statSync(t, full).v = "dir"
                THEN CountDetail(paths[i], dirItemCount(t, full), " item(s)")
                ELSE Return([matched |-> paths[i], detail |-> Null])
           ELSE probeStandard(t, paths, i + 1)

\* A probe that takes null for a match: found: matched !== undefined.
ProbeFindingLoose(check, probe) ==
  IF probe.ok
  THEN Return([found |-> TRUE, matchedPath |-> probe.v.matched,
               detail |-> probe.v.detail] @@ check)
  ELSE Thrown

\* { ...check, found: !!matched, matchedPath: matched, detail }
ProbeFinding(check, probe) ==
  IF probe.ok
  THEN Return([found |-> probe.v.matched # Null, matchedPath |-> probe.v.matched,
               detail |-> probe.v.detail] @@ check)
  ELSE Thrown

\* The body of the loop over allChecks: the finding pushed for `check`.
evaluate(t, check, deepResults, handlers) ==
  IF check.type = "deep-scan"
  THEN LET matches == IF check.deepPattern \in DOMAIN deepResults
                      THEN deepResults[check.deepPattern] ELSE <<>>
       IN  Return([found |-> Len(matches) > 0, matches |-> matches,
                   detail |-> IF Len(matches) > 0
                              THEN ToString(Len(matches)) \o " file(s) found"
                              ELSE Null] @@ check)
  ELSE IF check.type = "custom" /\ check.custom \in DOMAIN handlers
  THEN Return(handlers[check.custom] @@ check)
  ELSE IF check.type = "any"
  THEN ProbeFinding(check, probeAny(t, check.paths, 1))
  ELSE ProbeFinding(check, probeStandard(t, check.paths, 1))

---------------------------------------------------------------------------
(* audits/: the audit modules.  Of agent-configs.mjs the checks            *)
(* has-any-agent-tool, agents-md, agents-md-quality, agents-md-nested and  *)
(* continue-config are kept; mcp.mjs and prompts-skills.mjs are whole.  A  *)
(* check keeps its id, label, section, weight, paths, type, custom and     *)
(* deepPattern.                                                            *)

TOOL_SIGNALS ==
  << ".cursorrules", ".cursor/rules", ".windsurfrules", ".windsurf/rules",
     "CLAUDE.md", "claude.md", ".claude", ".github/copilot-instructions.md",
     "AGENTS.md", "agents.md", ".codex", "CODEX.md", ".gemini",
     ".aider.conf.yml", ".aider.conf.yaml", ".roo", ".continue",
     ".continuerc.json", ".junie", ".entire", "opencode.json", ".opencode",
     ".rules", ".trae", ".trae/rules", ".clinerules", ".goosehints",
     ".amazonq", ".amazonq/rules", ".augment", ".augment/rules",
     ".augment-guidelines.md", ".qodo", ".kiro", ".clio",
     ".clio/instructions.md" >>

AgentConfigsChecks ==
  << [id |-> "has-any-agent-tool", label |-> "At least one AI tool configured",
      section |-> "Agent Configs", weight |-> 20, paths |-> <<>>,
      type |-> "custom", custom |-> "has-any-agent-tool"],
     [id |-> "agents-md", label |-> "AGENTS.md",
      section |-> "Agent Configs", weight |-> 10,
      paths |-> <<"AGENTS.md", "agents.md">>, type |-> "file"],
     [id |-> "agents-md-quality", label |-> "AGENTS.md quality",
      section |-> "Agent Configs", weight |-> 5, paths |-> <<>>,
      type |-> "custom", custom |-> "agents-md-quality"],
     [id |-> "agents-md-nested", label |-> "Nested AGENTS.md",
      section |-> "Agent Configs", weight |-> 4, paths |-> <<>>,
      type |-> "deep-scan", deepPattern |-> "AGENTS.md"],
     [id |-> "continue-config", label |-> ".continue/",
      section |-> "Agent Configs", weight |-> 0,
      paths |-> <<".continue", ".continuerc.json">>, type |-> "any"] >>

McpChecks ==
  << [id |-> "mcp-json", label |-> ".mcp.json", section |-> "MCP", weight |-> 2,
      paths |-> <<".mcp.json", "mcp.json">>, type |-> "file"],
     [id |-> "mcp-json-quality", label |-> "MCP server count", section |-> "MCP",
      weight |-> 3, paths |-> <<>>, type |-> "custom", custom |-> "mcp-quality"],
     [id |-> "mcp-dir", label |-> ".mcp/ directory", section |-> "MCP",
      weight |-> 2, paths |-> <<".mcp">>, type |-> "dir"] >>

PROMPT_SIGNALS == <<"prompts", ".prompts", ".ai/prompts", ".claude/commands">>

PromptsSkillsChecks ==
  << [id |-> "has-any-prompt-or-skill", label |-> "At least one prompt or skill",
      section |-> "Prompts & Skills", weight |-> 8, paths |-> <<>>,
      type |-> "custom", custom |-> "has-any-prompt-or-skill"],
     [id |-> "prompt-yml", label |-> ".prompt.yml files",
      section |-> "Prompts & Skills", weight |-> 0, paths |-> <<>>,
      type |-> "deep-scan", deepPattern |-> ".prompt.yml"],
     [id |-> "prompt-md", label |-> ".prompt.md files",
      section |-> "Prompts & Skills", weight |-> 0, paths |-> <<>>,
      type |-> "deep-scan", deepPattern |-> ".prompt.md"],
     [id |-> "prompts-dir", label |-> "prompts/ directory",
      section |-> "Prompts & Skills", weight |-> 0,
      paths |-> <<"prompts", ".prompts", ".ai/prompts">>, type |-> "dir"],
     [id |-> "skill-md", label |-> "SKILL.md files",
      section |-> "Prompts & Skills", weight |-> 0, paths |-> <<>>,
      type |-> "deep-scan", deepPattern |-> "SKILL.md"],
     [id |-> "claude-commands", label |-> ".claude/commands/",
      section |-> "Prompts & Skills", weight |-> 0,
      paths |-> <<".claude/commands">>, type |-> "dir"] >>

\* repo-hygiene.mjs.  Its checks git-repo, gitignore, scripts,
\* commit-messages and conventional-commits are kept.
RepoHygieneChecks ==
  << [id |-> "git-repo", label |-> ".git", section |-> "Repo Hygiene", weight |-> 5,
      paths |-> <<".git">>, type |-> "dir"],
     [id |-> "gitignore", label |-> ".gitignore", section |-> "Repo Hygiene",
      weight |-> 5, paths |-> <<".gitignore">>, type |-> "file"],
     [id |-> "scripts", label |-> "Standard scripts", section |-> "Repo Hygiene",
      weight |-> 4, paths |-> <<>>, type |-> "custom", custom |-> "scripts"],
     [id |-> "commit-messages", label |-> "Descriptive commits",
      section |-> "Repo Hygiene", weight |-> 3, paths |-> <<>>,
      type |-> "custom", custom |-> "commit-messages"],
     [id |-> "conventional-commits", label |-> "Conventional commits",
      section |-> "Repo Hygiene", weight |-> 2, paths |-> <<>>,
      type |-> "custom", custom |-> "conventional-commits"] >>

\* A module a contributor adds to src/audits/: the example of the
\* create-audit skill.
SecurityChecks ==
  << [id |-> "security-policy", label |-> "SECURITY.md", section |-> "Security",
      weight |-> 3, paths |-> <<"SECURITY.md", ".github/SECURITY.md">>, type |-> "file"],
     [id |-> "codeowners", label |-> "CODEOWNERS", section |-> "Security",
      weight |-> 2,
      paths |-> <<"CODEOWNERS", ".github/CODEOWNERS", "docs/CODEOWNERS">>,
      type |-> "file"] >>

\* The files a contributor may leave in src/audits/ next to the shipped
\* ones: the example module, a copy of it under another name, a module
\* without the export `checks`, one without the export `section`, a file
\* that does not parse, a file that is not a module, and a module for
\* monorepos, which looks for an AGENTS.md in each package as agent-configs
\* does below the root, and whose analyzer tells the type of the workspace.
ContributedFiles ==
  {"security.mjs", "security-copy.mjs", "no-checks.mjs", "no-section.mjs",
   "broken.mjs", "README.md", "monorepo.mjs"}

\* await import(...) rejects.
ImportThrows(file) == file = "broken.mjs"

\* The files of src/audits/.
AuditFiles == {"agent-configs.mjs", "mcp.mjs", "prompts-skills.mjs"}

\* await import(join(AUDITS_DIR, file)): the exports of the module.
ImportAudit(file) ==
  CASE file = "agent-configs.mjs" ->
         [section |-> "Agent Configs", checks |-> AgentConfigsChecks, analyze |-> TRUE]
    [] file = "mcp.mjs" ->
         [section |-> "MCP", checks |-> McpChecks, analyze |-> TRUE]
    [] file = "prompts-skills.mjs" ->
         [section |-> "Prompts & Skills", checks |-> PromptsSkillsChecks, analyze |-> TRUE]
    [] file = "repo-hygiene.mjs" ->
         [section |-> "Repo Hygiene", checks |-> RepoHygieneChecks, analyze |-> TRUE]
    [] file \in {"security.mjs", "security-copy.mjs"} ->
         [section |-> "Security", checks |-> SecurityChecks]
    [] file = "no-checks.mjs" -> [section |-> "Drafts"]
    [] file = "no-section.mjs" ->
         [checks |-> << [id |-> "todo-files", label |-> "TODO.md files",
                         section |-> "Drafts", weight |-> 2, paths |-> <<>>,
                         type |-> "deep-scan", deepPattern |-> "TODO.md"] >>]
    [] file = "monorepo.mjs" ->
         [section |-> "Monorepo",
          checks |-> << [id |-> "package-agents-md", label |-> "AGENTS.md per package",
                         section |-> "Monorepo", weight |-> 2, paths |-> <<>>,
                         type |-> "deep-scan", deepPattern |-> "AGENTS.md"],
                        [id |-> "workspaces", label |-> "Workspaces",
                         section |-> "Monorepo", weight |-> 2, paths |-> <<>>,
                         type |-> "custom", custom |-> "workspaces"] >>,
          analyze |-> TRUE]

\* seq.join(sep)
RECURSIVE JoinWith(_, _)
JoinWith(seq, sep) ==
  IF seq = <<>> THEN ""
  ELSE IF Len(seq) = 1 THEN seq[1]
  ELSE seq[1] \o sep \o JoinWith(Tail(seq), sep)

\* seq.slice(0, n)
Slice(seq, n) == SubSeq(seq, 1, IF Len(seq) < n THEN Len(seq) ELSE n)

\* SIGNALS.filter((p) => existsSync(join(rootDir, p))) and the result made
\* of it: `${n} ${unit}: ${first five}`.
SignalsFound(t, signals) == SelectSeq(signals, LAMBDA p : existsSync(t, SplitPath(p)))

\* A result that is found when exactly one signal is.
SignalResultSingle(matched, unit) ==
  [found |-> Len(matched) = 1,
   detail |-> IF Len(matched) > 0
              THEN ToString(Len(matched)) \o unit \o JoinWith(Slice(matched, 5), ", ")
              ELSE Null]

SignalResult(matched, unit) ==
  [found |-> Len(matched) > 0,
   detail |-> IF Len(matched) > 0
              THEN ToString(Len(matched)) \o unit \o JoinWith(Slice(matched, 5), ", ")
              ELSE Null]

\* agents-md-quality: the longest of the candidate files that exist.
RECURSIVE BestCandidate(_, _, _, _)
BestCandidate(t, candidates, i, best) ==
  IF i > Len(candidates) THEN best
  ELSE LET full    == SplitPath(candidates[i])
           content == readFileSafe(t, full)
       IN  IF existsSync(t, full) /\ content.length > best.content.length
           THEN BestCandidate(t, candidates, i + 1,
                              [file |-> candidates[i], content |-> content])
           ELSE BestCandidate(t, candidates, i + 1, best)

AgentsMdQuality(t) ==
  LET best    == BestCandidate(t, <<"AGENTS.md", "agents.md", "CLAUDE.md", "claude.md">>, 1,
                               [file |-> Null, content |-> EmptyText])
      sc      == best.content.signals
      quality == IF sc >= 5 THEN "comprehensive" ELSE IF sc >= 3 THEN "good"
                 ELSE IF sc >= 1 THEN "basic" ELSE "minimal"
  IN  IF best.content.length = 0 THEN [found |-> FALSE]
      ELSE [found |-> sc >= 3,
            detail |-> IF sc >= 3
                       THEN quality \o " (" \o ToString(sc) \o "/6 signals in "
                              \o best.file \o ")"
                       ELSE Null,
            analysis |-> [file |-> best.file, quality |-> quality, score |-> sc,
                          maxScore |-> 6]]

\* agent-configs.mjs: analyze(rootDir, ctx)
analyzeAgentConfigs(t) ==
  [x \in {"has-any-agent-tool", "agents-md-quality"} |->
     IF x = "has-any-agent-tool"
     THEN SignalResult(SignalsFound(t, TOOL_SIGNALS), " tool(s): ")
     ELSE AgentsMdQuality(t)]

\* mcp-quality, given the parsed configuration: the body of the try block.
\* A property of null is a TypeError.
McpServers(config) ==
  IF config.t \in {"SyntaxError", "null"} THEN Thrown
  ELSE LET servers == IF JTruthy(JGet(config, "mcpServers")) THEN JGet(config, "mcpServers")
                      ELSE IF JTruthy(JGet(config, "servers")) THEN JGet(config, "servers")
                      ELSE config
           keys    == IF servers.t = "object" THEN servers.keys ELSE <<>>
       IN  Return([found |-> Len(keys) >= 2,
                   detail |-> IF Len(keys) >= 2
                              THEN ToString(Len(keys)) \o " server(s): "
                                     \o JoinWith(Slice(keys, 8), ", ")
                              ELSE Null])

\* A handler that goes on to the next file when one does not parse.
RECURSIVE McpQualitySkipsMalformed(_, _, _)
McpQualitySkipsMalformed(t, files, i) ==
  IF i > Len(files) THEN [found |-> FALSE]
  ELSE LET full == SplitPath(files[i])
           r    == IF existsSync(t, full) THEN McpServers(readFileSafe(t, full).json)
                   ELSE Thrown
       IN  IF r.ok THEN r.v ELSE McpQualitySkipsMalformed(t, files, i + 1)

\* mcp-quality: the first of .mcp.json and mcp.json that exists decides.
RECURSIVE McpQuality(_, _, _)
McpQuality(t, files, i) ==
  IF i > Len(files) THEN [found |-> FALSE]
  ELSE LET full == SplitPath(files[i])
       IN  IF existsSync(t, full)
           THEN LET r == McpServers(readFileSafe(t, full).json)
                IN  IF r.ok THEN r.v ELSE [found |-> FALSE]
           ELSE McpQuality(t, files, i + 1)

\* mcp.mjs: analyze(rootDir, ctx)
analyzeMcp(t) ==
  [x \in {"mcp-quality"} |-> McpQuality(t, <<".mcp.json", "mcp.json">>, 1)]

\* prompts-skills.mjs: analyze(rootDir, ctx).  ctx has no deepScanResults,
\* so `ctx.deepScanResults || {}` is {} and no pattern is added to matched.
analyzePromptsSkills(t) ==
  [x \in {"has-any-prompt-or-skill"} |->
     SignalResult(SignalsFound(t, PROMPT_SIGNALS), " source(s): ")]

\* A Makefile is a text of which the program also reads its rules: it is
\* held with the names of its targets, each of which stands in the text as
\* `name:` at the start of a line.
TargetsOf(content) == IF "targets" \in DOMAIN content THEN content.targets ELSE {}

\* scripts: `npm run s` for each desired script of package.json, then
\* `make s` for each s of which the Makefile includes `s:` and that is not
\* yet found.  The
\* parse of '' or of a text that is not JSON, and a property of null, throw
\* inside the try block.  (The dash of the detail is U+2014 in the source.)
ScriptsResult(t) ==
  LET desired  == <<"start", "test", "lint">>
      pkgPath  == <<"package.json">>
      pkg      == readFileSafe(t, pkgPath).json
      parsed   == existsSync(t, pkgPath) /\ pkg.t \notin {"SyntaxError", "null"}
      scripts  == IF parsed /\ JTruthy(JGet(pkg, "scripts"))
                  THEN JGet(pkg, "scripts") ELSE JObject(<<>>, <<>>)
      InNpm(x) == parsed /\ JTruthy(JGet(scripts, x))
      npm      == SelectSeq(desired, InNpm)
      makePath == <<"Makefile">>
      content  == readFileSafe(t, makePath)
      targets  == IF existsSync(t, makePath)
                  THEN {x \in {"start", "test", "lint"} :
                          \E name \in TargetsOf(content) :
                            Includes(name \o ":", x \o ":")}
                  ELSE {}
      InMake(x) == x \in targets /\ ~InNpm(x)
      make     == SelectSeq(desired, InMake)
      found    == [i \in 1..Len(npm) |-> "npm run " \o npm[i]]
                    \o [i \in 1..Len(make) |-> "make " \o make[i]]
      Missing(x) == parsed /\ ~InNpm(x) /\ x \notin targets
      missing  == SelectSeq(desired, Missing)
      ok       == Len(found) >= 2
  IN  [found |-> ok,
       matches |-> found,
       detail |-> IF ok
                  THEN ToString(Len(found)) \o "/3 (" \o JoinWith(found, ", ") \o ")"
                  ELSE IF Len(found) > 0
                  THEN ToString(Len(found)) \o "/3 - missing: " \o JoinWith(missing, ", ")
                  ELSE Null]

\* A commit subject is held as what the program reads of it: its length,
\* whether (trimmed) it is one of the lazy words, and whether it is in the
\* conventional format.
Subject(length, lazy, conventional) ==
  [length |-> length, lazy |-> lazy, conventional |-> conventional]

\* getRecentCommits(rootDir): the lines of the output that are not blank; []
\* when execSync throws (no repository, no commit, no git, a timeout).
getRecentCommits(log) ==
  IF log.ok THEN SelectSeq(log.v, LAMBDA m : m.length > 0) ELSE <<>>

\* commit-messages: found when at least 0.6 of the commits are descriptive.
\* For at most ten commits the double good / n is >= 0.6 exactly when
\* 5 * good >= 3 * n.
CommitMessages(commits) ==
  LET good == SelectSeq(commits, LAMBDA m : m.length >= 10 /\ ~m.lazy)
  IN  IF Len(commits) = 0 THEN [found |-> FALSE, detail |-> "no git history"]
      ELSE [found |-> 5 * Len(good) >= 3 * Len(commits),
            detail |-> ToString(Len(good)) \o "/" \o ToString(Len(commits))
                         \o " recent commits are descriptive"]

\* conventional-commits: found when at least 0.5 of the commits match.
ConventionalCommits(commits) ==
  LET matching == SelectSeq(commits, LAMBDA m : m.conventional)
  IN  IF Len(commits) = 0 THEN [found |-> FALSE, detail |-> "no git history"]
      ELSE [found |-> 2 * Len(matching) >= Len(commits),
            detail |-> ToString(Len(matching)) \o "/" \o ToString(Len(commits))
                         \o " use conventional format"]

\* An analyze that stores the result of the commit subjects under the key
\* of the scripts as well.
analyzeRepoHygieneMiskeyed(t, log) ==
  LET commits == getRecentCommits(log)
  IN  [x \in {"scripts", "commit-messages", "conventional-commits"} |->
         IF x = "conventional-commits" THEN ConventionalCommits(commits)
         ELSE CommitMessages(commits)]

\* repo-hygiene.mjs: analyze(rootDir, ctx)
analyzeRepoHygiene(t, log) ==
  LET commits == getRecentCommits(log)
  IN  [x \in {"scripts", "commit-messages", "conventional-commits"} |->
         IF x = "scripts" THEN ScriptsResult(t)
         ELSE IF x = "commit-messages" THEN CommitMessages(commits)
         ELSE ConventionalCommits(commits)]

\* audit.analyze(rootDir, ctx); log is what git log prints in rootDir.
analyze(audit, t, log) ==
  CASE audit.file = "agent-configs.mjs" -> analyzeAgentConfigs(t)
    [] audit.file = "mcp.mjs" -> analyzeMcp(t)
    [] audit.file = "prompts-skills.mjs" -> analyzePromptsSkills(t)
    [] audit.file = "repo-hygiene.mjs" -> analyzeRepoHygiene(t, log)
    [] audit.file = "monorepo.mjs" ->
         [x \in {"workspaces"} |->
            IF existsSync(t, <<"pnpm-workspace.yaml">>)
            THEN [found |-> TRUE, type |-> "pnpm", detail |-> "pnpm-workspace.yaml"]
            ELSE [found |-> FALSE]]

---------------------------------------------------------------------------
(* tool-profiles.mjs and the per-tool scores of scorer.mjs. The name, icon *)
(* and description of a profile are display strings and are left out.      *)

\* The entries of the shipped TOOL_PROFILES object, in insertion order.
ShippedProfiles ==
  << [key |-> "clio",
      profile |->
        [required |-> << "clio-dir", "clio-instructions" >>,
         valuable |->
           << "clio-ltm", "clio-memory", "clio-sessions", "agents-md",
              "agents-md-quality", "readme", "readme-quality", "test-dir",
              "docs-dir", "architecture-doc", "conventions-doc",
              "contributing", "git-repo", "gitignore", "ci-config", "license" >>,
         alternatives |-> << <<"agents-md", "clio-instructions">> >>,
         notApplicable |->
           << "cursorrules", "cursor-rules-dir", "cursorignore",
              "cursorindexingignore", "windsurfrules", "windsurf-rules-dir",
              "windsurf-skills", "windsurf-workflows", "claude-md",
              "claude-dir", "claude-settings", "claude-commands",
              "copilot-instructions", "copilot-instructions-dir",
              "copilotignore", "codex-dir", "codex-md", "gemini-dir",
              "aider-conf", "roo-dir", "continue-config", "amp-config",
              "junie-guidelines", "entire-dir", "opencode-json",
              "opencode-dir", "zed-rules", "trae-rules", "clinerules",
              "goosehints", "amazonq-rules", "augment-rules", "qodo-config",
              "mcp-json", "mcp-json-quality", "mcp-dir", "ai-deps",
              "aiignore", "coderabbit", "codeiumignore", "aiderignore" >>]],
     [key |-> "cursor",
      profile |->
        [required |-> << "has-any-agent-tool" >>,
         valuable |->
           << "cursorrules", "cursor-rules-dir", "cursorignore",
              "cursorindexingignore", "agents-md", "agents-md-quality",
              "readme", "readme-quality", "test-dir", "docs-dir",
              "architecture-doc", "conventions-doc", "contributing",
              "git-repo", "gitignore" >>,
         alternatives |-> << <<"cursorrules", "cursor-rules-dir">>, <<"agents-md", "cursorrules">> >>,
         notApplicable |->
           << "clio-dir", "clio-instructions", "clio-ltm", "clio-memory",
              "clio-sessions", "windsurfrules", "windsurf-rules-dir",
              "windsurf-skills", "windsurf-workflows", "claude-md",
              "claude-dir", "claude-settings", "claude-commands",
              "codex-dir", "codex-md", "gemini-dir", "aider-conf", "roo-dir",
              "continue-config", "junie-guidelines", "entire-dir",
              "opencode-json", "opencode-dir", "zed-rules", "trae-rules",
              "clinerules", "goosehints", "amazonq-rules", "augment-rules",
              "qodo-config" >>]],
     [key |-> "claude",
      profile |->
        [required |-> << "has-any-agent-tool" >>,
         valuable |->
           << "claude-md", "claude-dir", "claude-settings",
              "claude-commands", "agents-md", "agents-md-quality", "readme",
              "readme-quality", "test-dir", "docs-dir", "architecture-doc",
              "conventions-doc", "contributing", "git-repo", "gitignore",
              "mcp-json", "mcp-json-quality" >>,
         alternatives |-> << <<"claude-md", "agents-md">> >>,
         notApplicable |->
           << "clio-dir", "clio-instructions", "clio-ltm", "clio-memory",
              "clio-sessions", "cursorrules", "cursor-rules-dir",
              "cursorignore", "cursorindexingignore", "windsurfrules",
              "windsurf-rules-dir", "windsurf-skills", "windsurf-workflows",
              "codex-dir", "codex-md", "gemini-dir", "aider-conf", "roo-dir",
              "continue-config", "junie-guidelines", "entire-dir",
              "opencode-json", "opencode-dir", "zed-rules", "trae-rules",
              "clinerules", "goosehints", "amazonq-rules", "augment-rules",
              "qodo-config" >>]],
     [key |-> "windsurf",
      profile |->
        [required |-> << "has-any-agent-tool" >>,
         valuable |->
           << "windsurfrules", "windsurf-rules-dir", "windsurf-skills",
              "windsurf-workflows", "agents-md", "agents-md-quality",
              "readme", "readme-quality", "test-dir", "docs-dir",
              "architecture-doc", "conventions-doc", "contributing",
              "git-repo", "gitignore", "codeiumignore", "skill-md" >>,
         alternatives |-> << <<"windsurfrules", "windsurf-rules-dir">>, <<"agents-md", "windsurfrules">> >>,
         notApplicable |->
           << "clio-dir", "clio-instructions", "clio-ltm", "clio-memory",
              "clio-sessions", "cursorrules", "cursor-rules-dir",
              "cursorignore", "cursorindexingignore", "claude-md",
              "claude-dir", "claude-settings", "claude-commands",
              "codex-dir", "codex-md", "gemini-dir", "aider-conf", "roo-dir",
              "continue-config", "junie-guidelines", "entire-dir",
              "opencode-json", "opencode-dir", "zed-rules", "trae-rules",
              "clinerules", "goosehints", "amazonq-rules", "augment-rules",
              "qodo-config" >>]],
     [key |-> "copilot",
      profile |->
        [required |-> << "has-any-agent-tool" >>,
         valuable |->
           << "copilot-instructions", "copilot-instructions-dir",
              "copilotignore", "agents-md", "agents-md-quality", "readme",
              "readme-quality", "test-dir", "docs-dir", "git-repo",
              "gitignore", "instructions-md" >>,
         alternatives |-> << <<"copilot-instructions", "agents-md">> >>,
         notApplicable |->
           << "clio-dir", "clio-instructions", "clio-ltm", "clio-memory",
              "clio-sessions", "cursorrules", "cursor-rules-dir",
              "cursorignore", "cursorindexingignore", "windsurfrules",
              "windsurf-rules-dir", "windsurf-skills", "windsurf-workflows",
              "claude-md", "claude-dir", "claude-settings",
              "claude-commands", "codex-dir", "codex-md", "gemini-dir",
              "aider-conf", "roo-dir", "continue-config", "junie-guidelines",
              "entire-dir", "opencode-json", "opencode-dir", "zed-rules",
              "trae-rules", "clinerules", "goosehints", "amazonq-rules",
              "augment-rules", "qodo-config" >>]] >>

\* A value that is missing is undefined.
Undefined == "undefined"

\* TOOL_PROFILES is an exported mutable object: `added` lists the entries
\* [key, profile] a caller has set on it, in the order they were set.
TOOL_PROFILES(added) ==
  LET entries == ShippedProfiles \o added
  IN  [k \in {entries[i].key : i \in 1..Len(entries)} |->
         entries[CHOOSE i \in 1..Len(entries) :
                   /\ entries[i].key = k
                   /\ \A j \in (i + 1)..Len(entries) : entries[j].key # k].profile]

\* getToolKeys(): Object.keys(TOOL_PROFILES), in insertion order.
getToolKeys(added) ==
  LET entries == ShippedProfiles \o added
      first == SelectSeq([i \in 1..Len(entries) |-> i],
                         LAMBDA i : \A j \in 1..(i - 1) : entries[j].key # entries[i].key)
  IN  [n \in 1..Len(first) |-> entries[first[n]].key]

\* findingMap.get(id): the position of the last finding of that id, 0 for
\* undefined.
IndexById(fs, id) ==
  LET at == {i \in 1..Len(fs) : fs[i].id = id}
  IN  IF at = {} THEN 0 ELSE CHOOSE i \in at : \A j \in at : j <= i

\* const f = findingMap.get(id); return f && f.found;
FoundById(fs, id) ==
  LET i == IndexById(fs, id) IN i # 0 /\ fs[i].found

\* A filter that takes only the key itself and ids under `key-`.
ToolSpecificStrict(key, id) == id = key \/ StartsWith(id, key \o "-")

\* id.startsWith(key) || id.startsWith(`${key}-`)
ToolSpecific(key, id) == StartsWith(id, key) \/ StartsWith(id, key \o "-")

detectConfiguredTools(fs, added) ==
  LET profiles == TOOL_PROFILES(added)
      hasRequired(key) ==
        \A i \in 1..Len(profiles[key].required) :
          FoundById(fs, profiles[key].required[i])
      hasToolSpecific(key) ==
        \E i \in 1..Len(profiles[key].valuable) :
          /\ ToolSpecific(key, profiles[key].valuable[i])
          /\ FoundById(fs, profiles[key].valuable[i])
  IN  SelectSeq(getToolKeys(added),
                LAMBDA key : hasRequired(key) \/ hasToolSpecific(key))

\* The double d * 25: the exact product has 57 or 58 bits, of which the
\* last 4 or 5 are rounded away.
DMul25(d) ==
  IF d.hi = 0 THEN DZero
  ELSE LET a0   == (d.lo % 2^14) * 25
           a1   == (d.lo \div 2^14) * 25 + (a0 \div 2^14)
           loP  == (a1 % 2^13) * 2^14 + (a0 % 2^14)
           hi25 == d.hi * 25 + (a1 \div 2^13)
           s    == IF hi25 < 2^30 THEN 4 ELSE 5
           drop == loP % 2^s
       IN  DRound(hi25 \div 2^s,
                  (hi25 % 2^s) * 2^(LoBits - s) + (loP \div 2^s),
                  d.e + s,
                  drop \div 2^(s - 1),
                  drop % 2^(s - 1) # 0)

\* The double d * 100: d * 25 scaled by 4, which is exact.
DMul100(d) == LET p == DMul25(d) IN IF p.hi = 0 THEN DZero ELSE [p EXCEPT !.e = @ + 2]

\* A total that folds the alternatives bonus into the earned points.
TotalEarnedWithBonus(requiredPassed, valuablePassed, alternativeBonus) ==
  requiredPassed * 2 + valuablePassed + alternativeBonus

\* totalEarned = requiredPassed.length * 2 + valuablePassed.length; the
\* alternatives bonus is counted and not used.
TotalEarned(requiredPassed, valuablePassed, alternativeBonus) ==
  requiredPassed * 2 + valuablePassed

\* scoreForTool(findings, toolKey); normalized is returned in tenths.
scoreForTool(fs, added, toolKey) ==
  IF toolKey \notin DOMAIN TOOL_PROFILES(added) THEN Undefined
  ELSE
    LET profile == TOOL_PROFILES(added)[toolKey]
        InSeq(xs, x) == \E i \in 1..Len(xs) : xs[i] = x
        applicableFindings ==
          SelectSeq(fs, LAMBDA f : ~InSeq(profile.notApplicable, f.id))
        requiredPassed ==
          SelectSeq(profile.required, LAMBDA id : FoundById(fs, id))
        valuablePassed ==
          SelectSeq(profile.valuable, LAMBDA id : FoundById(fs, id))
        alternativeBonus ==
          Len(SelectSeq(profile.alternatives,
                        LAMBDA ab : FoundById(fs, ab[1]) \/ FoundById(fs, ab[2])))
        totalMax == Len(profile.required) * 2 + Len(profile.valuable)
        totalEarned ==
          TotalEarned(Len(requiredPassed), Len(valuablePassed), alternativeBonus)
        ratio == IF totalMax > 0 THEN DDiv(totalEarned, totalMax) ELSE DZero
        percentage == IF totalMax > 0 THEN MathRound(DMul100(ratio)) ELSE 0
        normalized10 ==
          IF totalMax > 0 THEN MathRound(DMul10(DMul10(ratio))) ELSE 0
        tier == IF \E i \in 1..Len(TIERS) : normalized10 >= TIERS[i].min * 10
                THEN TIERS[CHOOSE i \in 1..Len(TIERS) :
                             /\ normalized10 >= TIERS[i].min * 10
                             /\ \A j \in 1..(i - 1) : normalized10 < TIERS[j].min * 10]
                ELSE TIERS[Len(TIERS)]
    IN  [toolKey    |-> toolKey,
         percentage |-> percentage,
         normalized |-> normalized10,
         grade      |-> tier.grade,
         color      |-> tier.color,
         required   |->
           [passed |-> Len(requiredPassed),
            total  |-> Len(profile.required),
            checks |->
              [i \in 1..Len(profile.required) |->
                 LET id == profile.required[i]
                     at == IndexById(fs, id)
                 IN  [id    |-> id,
                      found |-> FoundById(fs, id),
                      label |-> IF at # 0 /\ fs[at].label # ""
                                THEN fs[at].label ELSE id]]],
         valuable   |-> [passed |-> Len(valuablePassed), total |-> Len(profile.valuable)],
         earned     |-> totalEarned,
         max        |-> totalMax,
         applicableChecks |-> Len(applicableFindings)]

scoreAllTools(fs, added) ==
  LET configuredTools == detectConfiguredTools(fs, added)
  IN  [configuredTools |-> configuredTools,
       toolScores |->
         [k \in {configuredTools[i] : i \in 1..Len(configuredTools)} |->
            scoreForTool(fs, added, k)],
       totalTools |-> Len(getToolKeys(added))]

scoreTools(fs, added, toolKeys) ==
  [requestedTools |-> toolKeys,
   toolScores |->
     [k \in {toolKeys[i] : i \in 1..Len(toolKeys)} \cap DOMAIN TOOL_PROFILES(added) |->
        scoreForTool(fs, added, k)]]

---------------------------------------------------------------------------
(* scanner.mjs: loadAudits and the parts of scan.                          *)

\* loadAudits(), given what readdirSync(AUDITS_DIR) lists and when every
\* import resolves: mod.section, mod.checks || [], mod.analyze || null.
loadAudits(entries) ==
  LET files == SortFiles(SelectSeq(entries, LAMBDA f : EndsWith(f, ".mjs")))
      Export(mod, name, missing) == IF name \in DOMAIN mod THEN mod[name] ELSE missing
  IN  [i \in 1..Len(files) |->
         [file |-> files[i],
          section |-> Export(ImportAudit(files[i]), "section", Undefined),
          checks |-> Export(ImportAudit(files[i]), "checks", <<>>),
          analyze |-> Export(ImportAudit(files[i]), "analyze", FALSE)]]

\* One of the awaited imports rejects, and with it loadAudits() and scan().
loadRejects(entries) ==
  \E i \in 1..Len(entries) : EndsWith(entries[i], ".mjs") /\ ImportThrows(entries[i])

\* audits.flatMap((a) => a.checks)
RECURSIVE AllChecks(_)
AllChecks(as) ==
  IF as = <<>> THEN <<>> ELSE Head(as).checks \o AllChecks(Tail(as))

\* allChecks.filter((c) => c.type === 'deep-scan').map((c) => c.deepPattern)
DeepPatterns(allChecks) ==
  LET ds == SelectSeq(allChecks, LAMBDA c : c.type = "deep-scan")
  IN  [i \in 1..Len(ds) |-> ds[i].deepPattern]

NoHandlers == [x \in {} |-> [found |-> FALSE]]

NoDeep == [results |-> [p \in {} |-> <<>>], filesScanned |-> 0, dirsScanned |-> 0]

---------------------------------------------------------------------------
(* The CLI: scan, score, report, exit.                                     *)

NoResult == [earnedPoints |-> 0, maxPoints |-> 0, normalized |-> 0,
             grade |-> "", color |-> "", sections |-> <<>>,
             foundCount |-> 0, totalChecks |-> 0]

CliIdle == result = NoResult /\ output = "none" /\ exitCode = "none"

\* Before scan has run, and when the findings are given.
ScanIdle ==
  /\ audits = <<>>
  /\ customHandlers = NoHandlers
  /\ deep = NoDeep
  /\ events = <<>>
  /\ cursor = 0

\* No scan before this one.
NoScan == [findings |-> <<>>, gitLog |-> Thrown, scans |-> 0]

\* No tool scores yet.
NoToolScores == [configuredTools |-> <<>>, toolScores |-> <<>>, totalTools |-> 0]

\* The directory lies in no git repository, nothing has been scanned, and
\* TOOL_PROFILES is as shipped.
Standalone ==
  /\ gitLog = Thrown
  /\ previous = NoScan
  /\ addedProfiles = <<>>
  /\ toolScores = NoToolScores

\* A directory with no entries.
EmptyTree == [p \in {<<>>} |-> DirNode]

\* The weight of a check: an integer in 0..20.
MaxWeight == 20

\* The longest finding list of the scorer's specification.
MaxFindings == 2

\* The findings of the scorer's specification name the pre-declared
\* sections in turn.
FindingAt(i, w, fnd) ==
  [weight |-> w, found |-> fnd,
   section |-> SECTION_ORDER[((i - 1) % Len(SECTION_ORDER)) + 1]]

\* The list of n findings with the weights and found flags c[1], ..., c[n].
FindingList(n, c) == [i \in 1..n |-> FindingAt(i, c[i][1], c[i][2])]

Init ==
  /\ \E n \in 0..MaxFindings :
       \E c \in [1..n -> (0..MaxWeight) \X BOOLEAN] :
         findings = FindingList(n, c)
  /\ rootDir = EmptyTree
  /\ auditsDir = <<>>
  /\ ScanIdle
  /\ pc = "scanned"
  /\ CliIdle
  /\ Standalone

\* const result = score(findings);
RunScore ==
  /\ pc = "scanned"
  /\ result' = score(findings)
  /\ pc' = "scored"
  /\ UNCHANGED <<scanVars, envVars, toolVars, findings, output, exitCode>>

\* The reporter chosen by the flags badge, --json, --tools and by whether
\* the terminal is interactive.
ReporterOf(flags) ==
  IF flags.badge THEN "badge"
  ELSE IF flags.json THEN (IF flags.tools THEN "reportToolsJson" ELSE "reportJson")
  ELSE IF flags.tty
       THEN (IF flags.tools THEN "reportInteractive+reportToolsInteractive"
             ELSE "reportInteractive")
       ELSE (IF flags.tools THEN "report+reportTools" ELSE "report")

Report ==
  /\ pc = "scored"
  /\ \E flags \in [badge : BOOLEAN, json : BOOLEAN, tools : BOOLEAN, tty : BOOLEAN] :
       output' = ReporterOf(flags)
  /\ pc' = "reported"
  /\ UNCHANGED <<scanVars, envVars, toolVars, findings, result, exitCode>>

\* A threshold that also fails a score of exactly 3.
ExitStatusInclusive(r) == IF r.normalized <= 30 THEN 1 ELSE 0

\* if (result.normalized < 3) process.exit(1);  (normalized in tenths)
ExitStatus(r) == IF r.normalized < 30 THEN 1 ELSE 0

Exit ==
  /\ pc = "reported"
  /\ exitCode' = ExitStatus(result)
  /\ pc' = "exited"
  /\ UNCHANGED <<scanVars, envVars, toolVars, findings, result, output>>

Next == RunScore \/ Report \/ Exit

Spec == Init /\ [][Next]_vars

\* A large catalogue: weight-20 checks, found and not found, and after them
\* one found and one missed check of any weight.
MaxBulkFound == 2
MaxBulkMissed == 7

BulkList(nf, nm, a, b) ==
  [i \in 1..(nf + nm + 2) |->
     IF i <= nf THEN FindingAt(i, MaxWeight, TRUE)
     ELSE IF i <= nf + nm THEN FindingAt(i, MaxWeight, FALSE)
     ELSE IF i = nf + nm + 1 THEN FindingAt(i, a, TRUE)
     ELSE FindingAt(i, b, FALSE)]

InitLarge ==
  /\ \E nf \in 0..MaxBulkFound, nm \in 0..MaxBulkMissed :
       \E a \in 0..MaxWeight, b \in 0..MaxWeight :
         findings = BulkList(nf, nm, a, b)
  /\ rootDir = EmptyTree
  /\ auditsDir = <<>>
  /\ ScanIdle
  /\ pc = "scanned"
  /\ CliIdle
  /\ Standalone

SpecLarge == InitLarge /\ [][Next]_vars

---------------------------------------------------------------------------
(* scan(rootDir, onProgress), step by step.  pc is "scan" at the call,     *)
(* "analyzing" in the loop over the audits (cursor counts the audits       *)
(* done), "checking" in the loop over allChecks, "done" at the return and  *)
(* "threw" when an exception leaves scan.  events lists what onProgress    *)
(* was called with.                                                        *)

\* An event that counts the checks from zero.
CheckingEventFromZero(checked, totalChecks, label) ==
  [phase |-> "checking", current |-> checked - 1, total |-> totalChecks, label |-> label]

\* { phase: 'checking', current: checked, total: totalChecks, label: check.label }
CheckingEvent(checked, totalChecks, label) ==
  [phase |-> "checking", current |-> checked, total |-> totalChecks, label |-> label]

\* const audits = await loadAudits();
ScanLoad ==
  /\ pc = "scan"
  /\ IF loadRejects(auditsDir)
     THEN audits' = audits /\ pc' = "threw"
     ELSE audits' = loadAudits(auditsDir) /\ pc' = "analyzing"
  /\ cursor' = 0
  /\ UNCHANGED <<rootDir, auditsDir, customHandlers, deep, events, findings, cliVars, envVars, toolVars>>

\* A turn of that loop whose analyzer leaves a file of its own in the
\* scanned directory.
ScanAnalyzeWriting ==
  /\ pc = "analyzing"
  /\ cursor < Len(audits)
  /\ LET audit == audits[cursor + 1]
     IN  customHandlers' = IF audit.analyze
                           THEN analyze(audit, rootDir, gitLog) @@ customHandlers
                           ELSE customHandlers
  /\ rootDir' = (<<".check-ai.json">> :> FileNode(EmptyText)) @@ rootDir
  /\ cursor' = cursor + 1
  /\ UNCHANGED <<auditsDir, audits, deep, events, findings, pc, cliVars, envVars, toolVars>>

\* One turn of the loop over the audits: customHandlers[key] = value for
\* each entry of audit.analyze(rootDir, ctx).
ScanAnalyze ==
  /\ pc = "analyzing"
  /\ cursor < Len(audits)
  /\ LET audit == audits[cursor + 1]
     IN  customHandlers' = IF audit.analyze
                           THEN analyze(audit, rootDir, gitLog) @@ customHandlers
                           ELSE customHandlers
  /\ cursor' = cursor + 1
  /\ UNCHANGED <<rootDir, auditsDir, audits, deep, events, findings, pc, cliVars, envVars, toolVars>>

\* A deep scan that starts while audits are still to be analyzed.
ScanDeepEarly ==
  /\ pc = "analyzing"
  /\ cursor <= Len(audits)
  /\ deep' = deepScan(rootDir, DeepPatterns(AllChecks(audits)))
  /\ events' = events \o
       << [phase |-> "deep-scan"],
          [phase |-> "deep-scan-done", filesScanned |-> deep'.filesScanned,
           dirsScanned |-> deep'.dirsScanned] >>
  /\ pc' = "checking"
  /\ UNCHANGED <<rootDir, auditsDir, audits, customHandlers, cursor, findings, cliVars, envVars, toolVars>>

\* Phase 1: the deep tree scan, between its two events.
ScanDeep ==
  /\ pc = "analyzing"
  /\ cursor = Len(audits)
  /\ deep' = deepScan(rootDir, DeepPatterns(AllChecks(audits)))
  /\ events' = events \o
       << [phase |-> "deep-scan"],
          [phase |-> "deep-scan-done", filesScanned |-> deep'.filesScanned,
           dirsScanned |-> deep'.dirsScanned] >>
  /\ pc' = "checking"
  /\ UNCHANGED <<rootDir, auditsDir, audits, customHandlers, cursor, findings, cliVars, envVars, toolVars>>

\* Phase 2, one turn of the loop over allChecks: the event, then the
\* finding pushed, or the exception of a probe.
ScanCheck ==
  /\ pc = "checking"
  /\ Len(findings) < Len(AllChecks(audits))
  /\ LET allChecks == AllChecks(audits)
         check     == allChecks[Len(findings) + 1]
         outcome   == evaluate(rootDir, check, deep.results, customHandlers)
     IN  /\ events' = Append(events, CheckingEvent(Len(findings) + 1, Len(allChecks),
                                                   check.label))
         /\ findings' = IF outcome.ok THEN Append(findings, outcome.v) ELSE findings
         /\ pc' = IF outcome.ok THEN "checking" ELSE "threw"
  /\ UNCHANGED <<rootDir, auditsDir, audits, customHandlers, deep, cursor, cliVars, envVars, toolVars>>

\* emit({ phase: 'done', total }); return findings;
ScanDone ==
  /\ pc = "checking"
  /\ Len(findings) = Len(AllChecks(audits))
  /\ events' = Append(events, [phase |-> "done", total |-> Len(findings)])
  /\ pc' = "done"
  /\ UNCHANGED <<rootDir, auditsDir, audits, customHandlers, deep, cursor, findings, cliVars, envVars, toolVars>>

ScanNext == ScanLoad \/ ScanAnalyze \/ ScanDeep \/ ScanCheck \/ ScanDone

\* The contents of the files of the scanned trees: an AGENTS.md that shows
\* four of the six signals and one that shows none; a .mcp.json with two
\* servers, one that is the text null, and one that is not JSON.
GoodAgentsMd == Text(420, 14, 4, JSyntaxError)
ThinAgentsMd == Text(12, 1, 0, JSyntaxError)
McpTwoServers ==
  Text(52, 1, 0,
       JObject(<<"mcpServers">>,
               <<JObject(<<"github", "files">>, <<JObject(<<>>, <<>>), JObject(<<>>, <<>>)>>)>>))
McpNull == Text(4, 1, 0, JNull)
McpMalformed == Text(1, 1, 0, JSyntaxError)
PromptText == Text(30, 2, 0, JSyntaxError)

At(path, node) == SplitPath(path) :> node

\* The pieces the scanned trees are made of: an entry of the root in one of
\* its states, with what lies below it.
Fragments ==
  { At("AGENTS.md", FileNode(GoodAgentsMd)),
    At("AGENTS.md", FileNode(ThinAgentsMd)),
    At("AGENTS.md", LockedFile(GoodAgentsMd)),
    At("AGENTS.md", DirNode),
    At("agents.md", FileNode(GoodAgentsMd)),
    At(".mcp.json", FileNode(McpTwoServers)),
    At(".mcp.json", FileNode(McpNull)),
    At(".mcp.json", FileNode(McpMalformed)),
    At(".mcp.json", DirNode),
    At("mcp.json", FileNode(McpTwoServers)),
    At(".mcp", DirNode) @@ At(".mcp/server.json", FileNode(McpTwoServers))
      @@ At(".mcp/.keep", FileNode(EmptyText)),
    At(".mcp", LockedDir),
    At(".mcp", FileNode(McpTwoServers)),
    At(".mcp", SocketNode),
    At("prompts", DirNode) @@ At("prompts/review.prompt.md", FileNode(PromptText)),
    At("prompts", FileNode(PromptText)),
    At(".claude", DirNode) @@ At(".claude/commands", DirNode),
    At(".continue", DirNode),
    At(".continue", SocketNode),
    At(".continuerc.json", FileNode(McpMalformed)),
    At("src", DirNode) @@ At("src/AGENTS.md", FileNode(ThinAgentsMd))
      @@ At("src/lib", DirNode) @@ At("src/lib/AGENTS.md", FileNode(ThinAgentsMd)),
    At("private", LockedDir) @@ At("private/AGENTS.md", FileNode(ThinAgentsMd)),
    At("node_modules", DirNode) @@ At("node_modules/pkg", DirNode)
      @@ At("node_modules/pkg/SKILL.md", FileNode(PromptText)) }

\* The entries of the root of a scanned tree come from at most MaxEntries
\* fragments.
MaxEntries == 2

\* No two of the fragments c[1], ..., c[n] differ on a path.
Compatible(c) ==
  \A i, j \in DOMAIN c : \A p \in DOMAIN c[i] \cap DOMAIN c[j] : c[i][p] = c[j][p]

\* The tree of the fragments c[1], ..., c[n] below a readable root.
TreeOf(c) ==
  [p \in {<<>>} \cup UNION {DOMAIN c[i] : i \in DOMAIN c} |->
     IF p = <<>> THEN DirNode
     ELSE c[CHOOSE i \in DOMAIN c : p \in DOMAIN c[i]][p]]

\* What readdirSync(AUDITS_DIR) may list: the files of src/audits/ in any
\* order.
Listings ==
  {l \in [1..Cardinality(AuditFiles) -> AuditFiles] :
     \A i, j \in DOMAIN l : i # j => l[i] # l[j]}

InitScan ==
  /\ \E n \in 0..MaxEntries :
       \E c \in [1..n -> Fragments] : Compatible(c) /\ rootDir = TreeOf(c)
  /\ auditsDir \in Listings
  /\ ScanIdle
  /\ findings = <<>>
  /\ pc = "scan"
  /\ CliIdle
  /\ Standalone

SpecScan == InitScan /\ [][ScanNext]_vars

---------------------------------------------------------------------------
(* deepScan(rootDir, patterns) on deep trees.                              *)

\* The directories of a deep tree form the chain src/lib/d3/.../dk below
\* the root, k = MaxTreeDepth; one of the first MaxSpecialLevel directories
\* of the chain may instead bear a special name or be unreadable.
MaxTreeDepth == 7

MaxSpecialLevel == 2

\* The files of a deep tree below its root: at most MaxFiles; at the root
\* there may be an AGENTS.md.
MaxFiles == 2

ChainName(j) == IF j = 1 THEN "src" ELSE IF j = 2 THEN "lib" ELSE "d" \o ToString(j)

SpecialNames == {"node_modules", ".vscode", ".claude"}

Specials ==
  {[level |-> 0, name |-> "", readable |-> TRUE]}
    \cup {[level |-> j, name |-> n, readable |-> TRUE] :
            j \in 1..MaxSpecialLevel, n \in SpecialNames}
    \cup {[level |-> j, name |-> "", readable |-> FALSE] : j \in 1..MaxSpecialLevel}

\* The directory at level j of the chain: its path.
ChainDir(sp, j) ==
  [i \in 1..j |-> IF sp.level = i /\ sp.name # "" THEN sp.name ELSE ChainName(i)]

FileNames == {"AGENTS.md", "gen.prompt.yml", "README.md"}

\* The sets of at most m elements of S.
RECURSIVE SetsUpTo(_, _)
SetsUpTo(S, m) ==
  IF m = 0 THEN {{}}
  ELSE LET smaller == SetsUpTo(S, m - 1)
       IN  smaller \cup {F \cup {x} : F \in smaller, x \in S}

\* The levels of the chain that may hold files: the first three and the
\* last two.
FileLevels == {1, 2, 3, MaxTreeDepth - 1, MaxTreeDepth}

\* The choices of the files below the root: each a level and a name.
FileSets == SetsUpTo(FileLevels \X FileNames, MaxFiles)

DeepTree(sp, slots, atRoot) ==
  LET dirs  == {ChainDir(sp, j) : j \in 0..MaxTreeDepth}
      files == {ChainDir(sp, slot[1]) \o <<slot[2]>> : slot \in slots}
                 \cup {<<name>> : name \in atRoot}
  IN  [p \in dirs \cup files |->
         IF p \in files THEN FileNode(PromptText)
         ELSE IF Len(p) = sp.level /\ ~sp.readable THEN LockedDir
         ELSE DirNode]

\* The patterns scan passes: those of the audit modules.
ScanPatterns == DeepPatterns(AllChecks(loadAudits(SortNames(AuditFiles))))

InitWalk ==
  /\ \E sp \in Specials, slots \in FileSets, atRoot \in {{}, {"AGENTS.md"}} :
       rootDir = DeepTree(sp, slots, atRoot)
  /\ auditsDir = <<>>
  /\ ScanIdle
  /\ findings = <<>>
  /\ pc = "walk"
  /\ CliIdle
  /\ Standalone

\* const { results, filesScanned, dirsScanned } = deepScan(rootDir, deepPatterns);
DeepScanCall ==
  /\ pc = "walk"
  /\ deep' = deepScan(rootDir, ScanPatterns)
  /\ pc' = "walked"
  /\ UNCHANGED <<rootDir, auditsDir, audits, customHandlers, events, cursor, findings, cliVars, envVars, toolVars>>

WalkNext == DeepScanCall

SpecWalk == InitWalk /\ [][WalkNext]_vars

---------------------------------------------------------------------------
(* Scans of a directory that may lie inside a git repository: scan, and   *)
(* then either scan again or go on to score, as the CLI does.              *)

\* 'feat: add the deep walker', 'Add the deep walker', 'fix'
FeatSubject == Subject(25, FALSE, TRUE)
PlainSubject == Subject(19, FALSE, FALSE)
LazySubject == Subject(3, TRUE, FALSE)

Subjects == {FeatSubject, PlainSubject, LazySubject}

\* The commits git log prints: at most MaxCommits.
MaxCommits == 2

\* The histories list the feat commits first and the lazy ones last.
Rank(m) == IF m = FeatSubject THEN 1 ELSE IF m = PlainSubject THEN 2 ELSE 3

\* What git log may do in the scanned directory: fail, or print the
\* subjects of the repository it discovers there or above.
Histories ==
  {Thrown} \cup
    {Return(h) : h \in {g \in UNION {[1..n -> Subjects] : n \in 1..MaxCommits} :
                           \A i, j \in DOMAIN g : i < j => Rank(g[i]) <= Rank(g[j])}}

\* A package.json with the scripts test and lint, one with the script
\* start, and a Makefile with the target test.
PkgTwoScripts ==
  Text(80, 6, 0,
       JObject(<<"scripts">>,
               <<JObject(<<"test", "lint">>, <<JObject(<<>>, <<>>), JObject(<<>>, <<>>)>>)>>))
PkgOneScript ==
  Text(50, 5, 0,
       JObject(<<"scripts">>, <<JObject(<<"start">>, <<JObject(<<>>, <<>>)>>)>>))
MakefileTest == Text(40, 3, 0, JSyntaxError) @@ [targets |-> {"test"}]

\* The scanned directories: none has a .git of its own.
RepoTrees ==
  { EmptyTree,
    TreeOf(<<At("package.json", FileNode(PkgTwoScripts)),
             At("AGENTS.md", FileNode(GoodAgentsMd))>>),
    TreeOf(<<At("package.json", FileNode(PkgOneScript)),
             At("Makefile", FileNode(MakefileTest))>>),
    TreeOf(<<At(".gitignore", FileNode(PromptText)),
             At("Makefile", FileNode(MakefileTest))>>) }

\* What readdirSync(AUDITS_DIR) lists, with repo-hygiene.mjs.
HygieneListing == <<"repo-hygiene.mjs", "agent-configs.mjs", "mcp.mjs", "prompts-skills.mjs">>

InitRepo ==
  /\ rootDir \in RepoTrees
  /\ auditsDir = HygieneListing
  /\ gitLog \in Histories
  /\ previous = NoScan
  /\ ScanIdle
  /\ findings = <<>>
  /\ pc = "scan"
  /\ CliIdle
  /\ addedProfiles = <<>>
  /\ toolScores = NoToolScores

\* A caller runs scan(rootDir) a second time on the directory, which has
\* not changed; what lies around the directory may have.
Rescan ==
  /\ pc = "done"
  /\ previous.scans = 0
  /\ previous' = [findings |-> findings, gitLog |-> gitLog, scans |-> 1]
  /\ gitLog' \in Histories
  /\ audits' = <<>>
  /\ customHandlers' = NoHandlers
  /\ deep' = NoDeep
  /\ events' = <<>>
  /\ cursor' = 0
  /\ findings' = <<>>
  /\ pc' = "scan"
  /\ UNCHANGED <<rootDir, auditsDir, cliVars, toolVars>>

\* const findings = await scan(targetDir, onProgress);
ScanReturn ==
  /\ pc = "done"
  /\ pc' = "scanned"
  /\ UNCHANGED <<scanVars, envVars, toolVars, findings, cliVars>>

SpecRepo == InitRepo /\ [][ScanNext \/ Rescan \/ ScanReturn \/ RunScore]_vars

---------------------------------------------------------------------------
(* Claims about the scoring engine and the exit status.                    *)

\* The sum of the weights of the findings at those of the positions 1..n
\* that are in idx.
RECURSIVE WeightTotal(_, _, _)
WeightTotal(fs, idx, n) ==
  IF n = 0 THEN 0
  ELSE (IF n \in idx THEN fs[n].weight ELSE 0) + WeightTotal(fs, idx, n - 1)

AllIdx(fs) == 1..Len(fs)
FoundIdx(fs) == {i \in 1..Len(fs) : fs[i].found}

Scored == pc \in {"scored", "reported", "exited"}

\* C1: maxPoints is the sum of all weights and earnedPoints the sum of the
\* weights of the found findings, so 0 <= earnedPoints <= maxPoints and the
\* returned normalized score lies in 0..10 (0..100 tenths).
C1_ScoreSums ==
  Scored =>
    LET all == AllIdx(findings)
        found == FoundIdx(findings)
    IN
    /\ result.maxPoints = WeightTotal(findings, all, Len(findings))
    /\ result.earnedPoints = WeightTotal(findings, found, Len(findings))
    /\ 0 <= result.earnedPoints /\ result.earnedPoints <= result.maxPoints
    /\ 0 <= result.normalized /\ result.normalized <= 100

C1_Witness ==
  /\ pc = "scored"
  /\ Len(findings) = 2
  /\ findings[1].found /\ ~findings[2].found
  /\ result.earnedPoints = 6 /\ result.maxPoints = 10

\* The grade of the first tier, scanned from A+ down, whose minimum is at
\* most the score n (in tenths).
GradeOfTenths(n) ==
  IF n >= 90 THEN "A+" ELSE IF n >= 70 THEN "A" ELSE IF n >= 50 THEN "B"
  ELSE IF n >= 30 THEN "C" ELSE IF n >= 10 THEN "D" ELSE "F"

\* C2: the grade is that of the first tier (A+ 9, A 7, B 5, C 3, D 1, F 0)
\* whose minimum is at most the normalized value returned in the same result.
C2_GradeOfReturned == Scored => result.grade = GradeOfTenths(result.normalized)

\* C3: normalized is 10 * earnedPoints / maxPoints rounded half-up to one
\* decimal place when maxPoints > 0 and 0 when maxPoints = 0; it is exactly
\* 10 when every finding is found and maxPoints > 0.
C3_RoundedHalfUp ==
  Scored =>
    /\ result.maxPoints > 0 =>
         result.normalized =
           (200 * result.earnedPoints + result.maxPoints) \div (2 * result.maxPoints)
    /\ result.maxPoints = 0 => result.normalized = 0
    /\ (result.maxPoints > 0 /\ FoundIdx(findings) = AllIdx(findings)) =>
         result.normalized = 100

\* C4: the process exits 1 exactly when the normalized score score() returns
\* for the findings is below 3, under every reporter.
C4_ExitStatus ==
  pc = "exited" =>
    /\ exitCode \in {0, 1}
    /\ exitCode = 1 <=> score(findings).normalized < 30

C4_Witness ==
  /\ pc = "exited"
  /\ output = "badge"
  /\ exitCode = 1
  /\ result.normalized = 29


---------------------------------------------------------------------------
(* Claims about the audit loader, the check evaluator and the walker.      *)

\* The audit files in ascending order of their names.
FilesInOrder ==
  CHOOSE o \in Listings : \A i, j \in DOMAIN o : i < j => StrLt(o[i], o[j])

\* The check definitions of the modules o[i], o[i+1], ..., each module's in
\* the order it declares them.
RECURSIVE DefinitionsFrom(_, _)
DefinitionsFrom(o, i) ==
  IF i > Len(o) THEN <<>>
  ELSE ImportAudit(o[i]).checks \o DefinitionsFrom(o, i + 1)

Definitions == DefinitionsFrom(FilesInOrder, 1)

\* C5: scan returns exactly one finding per check definition, the modules in
\* lexicographic order of their file names and each module's checks in
\* declared order: the i-th finding has the id of the i-th definition,
\* whatever the order in which the audits directory lists its files.
C5_OneFindingPerCheck ==
  /\ pc \in {"checking", "done"} =>
       /\ Len(findings) <= Len(Definitions)
       /\ \A i \in 1..Len(findings) : findings[i].id = Definitions[i].id
  /\ pc = "done" => Len(findings) = Len(Definitions)

C5_Witness ==
  /\ pc = "done"
  /\ auditsDir = <<"prompts-skills.mjs", "mcp.mjs", "agent-configs.mjs">>
  /\ Len(findings) = 14
  /\ findings[1].id = "has-any-agent-tool"
  /\ findings[6].id = "mcp-json"
  /\ findings[9].id = "has-any-prompt-or-skill"
  /\ findings[14].id = "claude-commands"

\* The candidate path exists as the kind the check type requires.
ExistsAsKind(path, type) ==
  LET p == SplitPath(path)
  IN  /\ existsSync(rootDir, p)
      /\ \/ type = "file" /\ rootDir[p].kind = "file"
         \/ type = "dir" /\ rootDir[p].kind = "dir"
         \/ type = "any" /\ rootDir[p].kind \in {"file", "dir"}

Qualifying(f) == {i \in 1..Len(f.paths) : ExistsAsKind(f.paths[i], f.type)}

\* C6: a finding of a check of type file, dir or any is found if and only
\* if a candidate path exists as the required kind (a regular file, a
\* directory, either), and matchedPath is then the first such candidate;
\* otherwise found is false and matchedPath is null.
C6_RequiredKind ==
  \A i \in 1..Len(findings) :
    LET f == findings[i]
    IN  f.type \in {"file", "dir", "any"} =>
          /\ f.found <=> Qualifying(f) # {}
          /\ f.matchedPath =
               IF Qualifying(f) = {} THEN Null
               ELSE f.paths[CHOOSE k \in Qualifying(f) : \A j \in Qualifying(f) : k <= j]

\* The paths the walker returned, under any pattern.
ReturnedPaths ==
  UNION {{deep.results[p][i] : i \in 1..Len(deep.results[p])} : p \in DOMAIN deep.results}

HiddenName(name) == SubSeq(name, 1, 1) = "."

\* The directory names the walker must not enter.
SkippedName(name) ==
  \/ name \in SKIP_DIRS
  \/ HiddenName(name) /\ name \notin {".claude", ".agents", ".windsurf", ".cursor", ".github"}

\* C7: no path the deep walker returns has a directory segment that is on
\* the denylist or that is hidden and not on the allowlist, and none is
\* root-level (without a separator).
C7_NoSkippedSegment ==
  \A rel \in ReturnedPaths :
    LET segs == SplitPath(rel)
    IN  /\ Len(segs) >= 2
        /\ \A i \in 1..(Len(segs) - 1) : ~SkippedName(segs[i])

C7_Witness ==
  /\ pc = "walked"
  /\ <<"AGENTS.md">> \in DOMAIN rootDir
  /\ <<"node_modules", "AGENTS.md">> \in DOMAIN rootDir
  /\ <<"node_modules", "lib", "gen.prompt.yml">> \in DOMAIN rootDir
  /\ ReturnedPaths = {}

\* The directories walk reads or tries to read: those within a depth of max
\* below the root that lie below searchable directories and have no
\* skipped name on their path.
WalkedDirs(t, max) ==
  {d \in DOMAIN t :
     /\ t[d].kind = "dir"
     /\ Len(d) <= max
     /\ Reachable(t, d)
     /\ \A i \in 1..Len(d) : ~SkippedName(d[i])}

\* The tree without what lies in directories deeper than max.
CutBelow(t, max) == [p \in {q \in DOMAIN t : Len(q) <= max + 1} |-> t[p]]

\* C8: with maxDepth = 6 the walker reads a directory only if its depth
\* below the root is at most 6, so no returned file lies in a directory
\* deeper than 6; what lies deeper leaves no trace in what deepScan returns:
\* the result is that of the tree without it.
C8_DepthBound ==
  pc = "walked" =>
    /\ \A rel \in ReturnedPaths : Len(SplitPath(rel)) - 1 <= 6
    /\ deep.dirsScanned = Cardinality(WalkedDirs(rootDir, 6))
    /\ deep = deepScan(CutBelow(rootDir, 6), ScanPatterns)
    /\ DOMAIN deep = {"results", "filesScanned", "dirsScanned"}

C8_Witness ==
  /\ pc = "walked"
  /\ <<"src", "lib", "d3", "AGENTS.md">> \in DOMAIN rootDir
  /\ <<"src", "lib", "d3", "d4", "d5", "d6", "d7", "AGENTS.md">> \in DOMAIN rootDir
  /\ deep.results["AGENTS.md"] = <<"src/lib/d3/AGENTS.md">>

\* The name is p or ends with p.
HasSuffix(name, p) == \E k \in 0..Len(name) : SubSeq(name, k + 1, Len(name)) = p

\* The files the walker has to return under the pattern p, as relative
\* paths.
ExpectedMatches(t, p) ==
  LET walked == WalkedDirs(t, 6)
  IN  {JoinWith(q, "/") :
         q \in {r \in DOMAIN t :
                  /\ t[r].kind = "file"
                  /\ Len(r) >= 2
                  /\ HasSuffix(r[Len(r)], p)
                  /\ SubSeq(r, 1, Len(r) - 1) \in walked
                  /\ t[SubSeq(r, 1, Len(r) - 1)].readable}}

\* C9: under each pattern p the walker returns, once each, exactly the
\* regular files at least one directory below the root that are reachable
\* through directories it does not skip, within the depth bound, and whose
\* name is p or ends with p.
C9_EveryMatch ==
  pc = "walked" =>
    /\ DOMAIN deep.results = {ScanPatterns[i] : i \in 1..Len(ScanPatterns)}
    /\ \A p \in DOMAIN deep.results :
         LET expected == ExpectedMatches(rootDir, p)
         IN  /\ {deep.results[p][i] : i \in 1..Len(deep.results[p])} = expected
             /\ Len(deep.results[p]) = Cardinality(expected)

C9_Witness ==
  /\ pc = "walked"
  /\ <<"AGENTS.md">> \notin DOMAIN rootDir
  /\ deep.results["AGENTS.md"] = <<"src/AGENTS.md", "src/lib/AGENTS.md">>

\* The tree with every unreadable directory empty.
Emptied(t) ==
  [p \in {q \in DOMAIN t : Reachable(t, q)} |->
     IF t[p].kind = "dir" THEN DirNode ELSE t[p]]

\* The matched path of the finding is a file or a directory that cannot be
\* read.
MatchedUnreadable(f) ==
  /\ f.type \in {"file", "dir", "any"}
  /\ f.matchedPath # Null
  /\ ~rootDir[SplitPath(f.matchedPath)].readable

\* One of the steps of scan can be taken: the loop it is in has a turn left
\* or is over.
NextStepReady ==
  \/ pc = "scan"
  \/ pc = "analyzing" /\ cursor <= Len(audits)
  \/ pc = "checking" /\ Len(findings) <= Len(AllChecks(audits))

\* C10: whatever the tree holds (missing paths, unreadable files and
\* directories, malformed JSON), no exception leaves scan, before its return
\* scan always has a next step to take, and it returns one finding per
\* check; a probe that fails gives found = false or a count of zero, and an
\* unreadable directory is walked as an empty one, its siblings included.
C10_ScanCompletes ==
  /\ pc # "threw"
  /\ pc # "done" => NextStepReady
  /\ pc = "done" => Len(findings) = Len(AllChecks(audits))
  /\ \A i \in 1..Len(findings) :
       /\ findings[i].found \in BOOLEAN
       /\ MatchedUnreadable(findings[i]) =>
            findings[i].detail \in {"0 line(s)", "0 item(s)"}
  /\ pc = "done" =>
       deep = deepScan(Emptied(rootDir), DeepPatterns(AllChecks(audits)))

C10_Witness ==
  /\ pc = "done"
  /\ <<"private", "AGENTS.md">> \in DOMAIN rootDir
  /\ ~rootDir[<<"private">>].readable
  /\ findings[4].id = "agents-md-nested"
  /\ findings[4].matches = <<"src/AGENTS.md", "src/lib/AGENTS.md">>
  /\ Len(findings) = 14

---------------------------------------------------------------------------
(* The scorer on findings of pre-declared, contributed and missing         *)
(* sections.                                                               *)

\* Section names: two pre-declared ones, the section of the clio module, a
\* contributed one, 'Other' itself and the missing section.
SectionNames == {"Repo Hygiene", "MCP", "CLIO", "Security", "Other", ""}

SectionWeights == {0, 3, MaxWeight}

\* The longest finding list of this specification.
MaxSectioned == 2

InitSections ==
  /\ \E n \in 0..MaxSectioned :
       findings \in [1..n -> [weight : SectionWeights, found : BOOLEAN,
                              section : SectionNames]]
  /\ rootDir = EmptyTree
  /\ auditsDir = <<>>
  /\ ScanIdle
  /\ pc = "scanned"
  /\ CliIdle
  /\ Standalone

SpecSections == InitSections /\ [][RunScore]_vars

---------------------------------------------------------------------------
(* scoreAllTools and scoreTools on the findings of a scan.                 *)

\* The checks whose findings this specification draws, in scan order.
ToolPool ==
  << [id |-> "has-any-agent-tool", label |-> "At least one AI tool configured"],
     [id |-> "agents-md", label |-> "AGENTS.md"],
     [id |-> "claude-md", label |-> "CLAUDE.md"],
     [id |-> "cursorrules", label |-> ".cursorrules"],
     [id |-> "windsurf-skills", label |-> ".windsurf/skills/"],
     [id |-> "aider-conf", label |-> ".aider.conf.yml"],
     [id |-> "clio-dir", label |-> ".clio/"],
     [id |-> "cursorignore", label |-> ".cursorignore"],
     [id |-> "copilotignore", label |-> ".copilotignore"],
     [id |-> "clio-instructions", label |-> ".clio/instructions.md"],
     [id |-> "mcp-json", label |-> ".mcp.json"] >>

\* The most findings of a list of this specification.
MaxToolFindings == 3

\* The findings of the checks of ToolPool at the positions in `at`, found
\* where `fnd` says so.
RECURSIVE ToolFindings(_, _, _)
ToolFindings(at, fnd, n) ==
  IF n = 0 THEN <<>>
  ELSE ToolFindings(at, fnd, n - 1) \o
         (IF n \in at THEN << [found |-> n \in fnd] @@ ToolPool[n] >> ELSE <<>>)

\* Two profiles a caller may set on TOOL_PROFILES: one for Aider that lists
\* cursorrules both as valuable and as not applicable, and one without any
\* check.
AddedProfiles ==
  << [key |-> "aider",
      profile |-> [required |-> << "aider-conf" >>,
                   valuable |-> << "agents-md", "cursorrules" >>,
                   alternatives |-> << <<"agents-md", "aider-conf">> >>,
                   notApplicable |-> << "cursorrules", "claude-md" >>]],
     [key |-> "none",
      profile |-> [required |-> <<>>, valuable |-> <<>>,
                   alternatives |-> <<>>, notApplicable |-> <<>>]] >>

\* The key lists given to scoreTools.
RequestedTools == {<<"cursor", "vim">>, <<"aider", "none", "clio">>}

InitTools ==
  /\ \E at \in SUBSET (1..Len(ToolPool)) :
       /\ Cardinality(at) <= MaxToolFindings
       /\ \E fnd \in SUBSET at : findings = ToolFindings(at, fnd, Len(ToolPool))
  /\ rootDir = EmptyTree
  /\ auditsDir = <<>>
  /\ ScanIdle
  /\ pc = "scanned"
  /\ CliIdle
  /\ gitLog = Thrown
  /\ previous = NoScan
  /\ addedProfiles \in {<<>>, AddedProfiles}
  /\ toolScores = NoToolScores

\* const toolResults = scoreAllTools(findings)
ScoreAllTools ==
  /\ pc = "scanned"
  /\ toolScores' = scoreAllTools(findings, addedProfiles)
  /\ pc' = "tools"
  /\ UNCHANGED <<scanVars, envVars, addedProfiles, findings, cliVars>>

\* scoreTools(findings, toolKeys)
ScoreTools ==
  /\ pc = "scanned"
  /\ \E toolKeys \in RequestedTools :
       toolScores' = scoreTools(findings, addedProfiles, toolKeys)
  /\ pc' = "requested"
  /\ UNCHANGED <<scanVars, envVars, addedProfiles, findings, cliVars>>

SpecTools == InitTools /\ [][ScoreAllTools \/ ScoreTools]_vars

---------------------------------------------------------------------------
(* Scans with contributed modules in src/audits/.                          *)

\* The most files a contributor has left in src/audits/.
MaxContributed == 2

\* The scanned directories: empty, with a SECURITY.md, with a TODO.md
\* below docs/ as well, and a pnpm workspace with an AGENTS.md in its
\* package.
LoadTrees ==
  { EmptyTree,
    TreeOf(<< At("SECURITY.md", FileNode(PromptText)) >>),
    TreeOf(<< At("SECURITY.md", FileNode(PromptText)),
              At("docs", DirNode) @@ At("docs/TODO.md", FileNode(PromptText)) >>),
    TreeOf(<< At("pnpm-workspace.yaml", FileNode(PromptText)),
              At("packages", DirNode) @@ At("packages/app", DirNode)
                @@ At("packages/app/AGENTS.md", FileNode(ThinAgentsMd)) >>) }

InitLoad ==
  /\ rootDir \in LoadTrees
  /\ \E added \in SUBSET ContributedFiles :
       /\ Cardinality(added) \in 1..MaxContributed
       /\ auditsDir = HygieneListing \o SortNames(added)
  /\ ScanIdle
  /\ findings = <<>>
  /\ pc = "scan"
  /\ CliIdle
  /\ Standalone

SpecLoad == InitLoad /\ [][ScanNext \/ ScanReturn]_vars

---------------------------------------------------------------------------
(* agent-configs.mjs: the checks of the single tools, and scans of          *)
(* directories that hold tool configuration.                               *)

ToolCheck(id, label, type, paths) ==
  [id |-> id, label |-> label, section |-> "Agent Configs", weight |-> 0,
   paths |-> paths, type |-> type]

\* The checks of weight 0 of agent-configs.mjs, one per tool config.
AgentToolChecks ==
  << ToolCheck("claude-md", "CLAUDE.md", "file",
               << "CLAUDE.md", "claude.md" >>),
     ToolCheck("claude-dir", ".claude/", "dir",
               << ".claude" >>),
     ToolCheck("claude-settings", ".claude/settings.json", "file",
               << ".claude/settings.json", ".claude/settings.local.json" >>),
     ToolCheck("cursorrules", ".cursorrules", "file",
               << ".cursorrules" >>),
     ToolCheck("cursor-rules-dir", ".cursor/rules/", "dir",
               << ".cursor/rules" >>),
     ToolCheck("windsurfrules", ".windsurfrules", "file",
               << ".windsurfrules" >>),
     ToolCheck("windsurf-rules-dir", ".windsurf/rules/", "dir",
               << ".windsurf/rules" >>),
     ToolCheck("windsurf-skills", ".windsurf/skills/", "dir",
               << ".windsurf/skills" >>),
     ToolCheck("windsurf-workflows", ".windsurf/workflows/", "dir",
               << ".windsurf/workflows" >>),
     ToolCheck("copilot-instructions", ".github/copilot-instructions.md", "file",
               << ".github/copilot-instructions.md" >>),
     ToolCheck("copilot-instructions-dir", ".github/instructions/", "dir",
               << ".github/instructions" >>),
     ToolCheck("codex-dir", ".codex/", "dir",
               << ".codex" >>),
     ToolCheck("codex-md", "CODEX.md", "file",
               << "CODEX.md", "codex.md" >>),
     ToolCheck("gemini-dir", ".gemini/", "dir",
               << ".gemini" >>),
     ToolCheck("aider-conf", ".aider.conf.yml", "file",
               << ".aider.conf.yml", ".aider.conf.yaml", ".aiderignore" >>),
     ToolCheck("roo-dir", ".roo/", "dir",
               << ".roo" >>),
     ToolCheck("continue-config", ".continue/", "any",
               << ".continue", ".continuerc.json" >>),
     ToolCheck("amp-config", "AGENTS.md (Amp)", "any",
               << "ampcode.md", ".amp" >>),
     ToolCheck("junie-guidelines", ".junie/ guidelines", "any",
               << ".junie", ".junie/guidelines.md" >>),
     ToolCheck("entire-dir", ".entire/", "dir",
               << ".entire" >>),
     ToolCheck("opencode-json", "opencode.json", "file",
               << "opencode.json" >>),
     ToolCheck("opencode-dir", ".opencode/", "dir",
               << ".opencode" >>),
     ToolCheck("zed-rules", ".rules (Zed)", "file",
               << ".rules" >>),
     ToolCheck("trae-rules", ".trae/rules/", "any",
               << ".trae/rules", ".trae" >>),
     ToolCheck("clinerules", ".clinerules", "file",
               << ".clinerules" >>),
     ToolCheck("goosehints", ".goosehints", "file",
               << ".goosehints" >>),
     ToolCheck("amazonq-rules", ".amazonq/rules/", "any",
               << ".amazonq/rules", ".amazonq" >>),
     ToolCheck("augment-rules", ".augment/rules/", "any",
               << ".augment/rules", ".augment", ".augment-guidelines.md" >>),
     ToolCheck("qodo-config", ".qodo/", "any",
               << ".qodo" >>),
     ToolCheck("clio-dir", ".clio/", "dir",
               << ".clio" >>),
     ToolCheck("clio-instructions-file", ".clio/instructions.md", "file",
               << ".clio/instructions.md" >>) >>

\* The most entries of a scanned directory of this specification.
MaxToolEntries == 1

\* The paths the tool checks and TOOL_SIGNALS look at.
ToolPaths ==
  {TOOL_SIGNALS[i] : i \in 1..Len(TOOL_SIGNALS)}
    \cup UNION {{AgentToolChecks[i].paths[j] : j \in 1..Len(AgentToolChecks[i].paths)} :
                 i \in 1..Len(AgentToolChecks)}

\* The directory that holds the paths c[i][1] as files (c[i][2] = "file") or
\* as directories, below the directories that lead to them.
ConfigTree(c) ==
  LET ends == {SplitPath(c[i][1]) : i \in DOMAIN c}
      dirs == UNION {{SubSeq(p, 1, n) : n \in 0..(Len(p) - 1)} : p \in ends} \ ends
      KindOf(p) == c[CHOOSE i \in DOMAIN c : SplitPath(c[i][1]) = p][2]
  IN  [p \in ends \cup dirs |->
         IF p \in dirs \/ KindOf(p) = "dir" THEN DirNode ELSE FileNode(PromptText)]

\* No path is given twice, and none lies below a path given as a file.
ConfigCompatible(c) ==
  \A i, j \in DOMAIN c :
    i # j => LET p == SplitPath(c[i][1])
                 q == SplitPath(c[j][1])
             IN  /\ p # q
                 /\ ~(c[i][2] = "file" /\ Len(p) < Len(q) /\ SubSeq(q, 1, Len(p)) = p)

InitConfigs ==
  /\ \E n \in 0..MaxToolEntries :
       \E c \in [1..n -> ToolPaths \X {"file", "dir"}] :
         ConfigCompatible(c) /\ rootDir = ConfigTree(c)
  /\ auditsDir = << "agent-configs.mjs" >>
  /\ ScanIdle
  /\ findings = <<>>
  /\ pc = "scan"
  /\ CliIdle
  /\ Standalone

\* scan() over has-any-agent-tool and the tool checks of agent-configs.mjs:
\* the handlers of analyze(), then one finding per check, in check order.
ScanToolChecks ==
  /\ pc = "scan"
  /\ customHandlers' = analyzeAgentConfigs(rootDir)
  /\ LET checks == << AgentConfigsChecks[1] >> \o AgentToolChecks
         outcome(i) == evaluate(rootDir, checks[i], NoDeep.results, customHandlers')
     IN  IF \A i \in 1..Len(checks) : outcome(i).ok
         THEN findings' = [i \in 1..Len(checks) |-> outcome(i).v] /\ pc' = "done"
         ELSE findings' = findings /\ pc' = "threw"
  /\ UNCHANGED <<rootDir, auditsDir, audits, deep, events, cursor, cliVars, envVars, toolVars>>

SpecConfigs == InitConfigs /\ [][ScanToolChecks \/ ScanReturn]_vars

---------------------------------------------------------------------------
(* Scans of directories with a package.json and a Makefile.                *)

\* What a package.json may hold: text that is not JSON, the text null, an
\* object without scripts, and objects whose scripts name some of the
\* desired commands and build.
PackageJsons ==
  {Text(9, 1, 0, JSyntaxError), Text(4, 1, 0, JNull), Text(20, 3, 0, JObject(<<>>, <<>>))}
    \cup {Text(60, 5, 0, JObject(<<"scripts">>,
                                 <<JObject(names, [i \in 1..Len(names) |-> JObject(<<>>, <<>>)])>>)) :
            names \in {SortNames(S) : S \in SUBSET {"start", "test", "lint", "build"}}}

\* The Makefiles: their targets are among the desired commands, unittest
\* and eslint.
Makefiles ==
  {Text(40, 4, 0, JSyntaxError) @@ [targets |-> S] :
     S \in SUBSET {"start", "test", "lint", "unittest", "eslint"}}

InitScripts ==
  /\ \E pkg \in {<<>>} \cup {<<At("package.json", n)>> :
                                n \in {FileNode(c) : c \in PackageJsons}
                                        \cup {LockedFile(Text(60, 5, 0, JObject(<<>>, <<>>))), DirNode}},
        mk \in {<<>>} \cup {<<At("Makefile", FileNode(c))>> : c \in Makefiles} :
       rootDir = TreeOf(pkg \o mk)
  /\ auditsDir = << "repo-hygiene.mjs" >>
  /\ ScanIdle
  /\ findings = <<>>
  /\ pc = "scan"
  /\ CliIdle
  /\ Standalone

SpecScripts == InitScripts /\ [][ScanNext \/ ScanReturn]_vars

---------------------------------------------------------------------------
(* Scans of directories with MCP configurations.                           *)

\* An object of servers with the given names.
Servers(names) == JObject(names, [i \in 1..Len(names) |-> JObject(<<>>, <<>>)])

\* What .mcp.json and mcp.json may hold: text that is not JSON, null, and
\* objects that name their servers under mcpServers, under servers, or at
\* the top level.
McpConfigs ==
  {Text(1, 1, 0, JSyntaxError), Text(4, 1, 0, JNull), Text(2, 1, 0, Servers(<<>>)),
   Text(30, 1, 0, JObject(<<"mcpServers">>, <<Servers(<<"a">>)>>)),
   Text(40, 1, 0, JObject(<<"mcpServers">>, <<Servers(<<"a", "b">>)>>)),
   Text(50, 1, 0, JObject(<<"mcpServers">>, <<Servers(<<"a", "b", "c">>)>>)),
   Text(50, 1, 0, JObject(<<"mcpServers", "inputs", "version">>,
                          <<Servers(<<>>), Servers(<<>>), Servers(<<>>)>>)),
   Text(50, 1, 0, JObject(<<"mcpServers", "servers">>,
                          <<JNull, Servers(<<"a", "b", "c">>)>>)),
   Text(40, 1, 0, JObject(<<"servers">>, <<Servers(<<"a", "b">>)>>)),
   Text(30, 1, 0, JObject(<<"servers">>, <<Servers(<<"a">>)>>)),
   Text(30, 1, 0, Servers(<<"a", "b">>)),
   Text(20, 1, 0, Servers(<<"a">>))}

McpNodes ==
  {FileNode(c) : c \in McpConfigs}
    \cup {LockedFile(Text(50, 1, 0, JObject(<<"mcpServers">>, <<Servers(<<"a", "b", "c">>)>>))),
          DirNode}

InitMcp ==
  /\ \E dot \in {<<>>} \cup {<<At(".mcp.json", n)>> : n \in McpNodes},
        plain \in {<<>>} \cup {<<At("mcp.json", n)>> : n \in McpNodes} :
       rootDir = TreeOf(dot \o plain)
  /\ auditsDir = << "mcp.mjs" >>
  /\ ScanIdle
  /\ findings = <<>>
  /\ pc = "scan"
  /\ CliIdle
  /\ Standalone

SpecMcp == InitMcp /\ [][ScanNext \/ ScanReturn]_vars

---------------------------------------------------------------------------
(* Scans of directories with prompts and skills.                           *)

PromptFragments ==
  { At("SKILL.md", FileNode(PromptText)),
    At("skills", DirNode) @@ At("skills/review", DirNode)
      @@ At("skills/review/SKILL.md", FileNode(PromptText)),
    At("docs", DirNode) @@ At("docs/review.prompt.md", FileNode(PromptText)),
    At("summary.prompt.yml", FileNode(PromptText)),
    At("prompts", DirNode) @@ At("prompts/review.prompt.md", FileNode(PromptText)),
    At("prompts", DirNode),
    At(".prompts", DirNode),
    At(".claude", DirNode) @@ At(".claude/commands", DirNode),
    At("node_modules", DirNode) @@ At("node_modules/pkg", DirNode)
      @@ At("node_modules/pkg/SKILL.md", FileNode(PromptText)),
    At("README.md", FileNode(PromptText)) }

InitPrompts ==
  /\ \E n \in 0..MaxEntries :
       \E c \in [1..n -> PromptFragments] : Compatible(c) /\ rootDir = TreeOf(c)
  /\ auditsDir = << "prompts-skills.mjs" >>
  /\ ScanIdle
  /\ findings = <<>>
  /\ pc = "scan"
  /\ CliIdle
  /\ Standalone

SpecPrompts == InitPrompts /\ [][ScanNext \/ ScanReturn]_vars

---------------------------------------------------------------------------
(* A scan, an addition to the scanned directory, and a second scan.        *)

\* A CLAUDE.md that is longer than the AGENTS.md files and shows one of the
\* six signals.
LongClaudeMd == Text(900, 40, 1, JSyntaxError)

\* What is added: an entry of the root with what lies below it.
GrowFragments ==
  { At("AGENTS.md", FileNode(GoodAgentsMd)),
    At("agents.md", FileNode(ThinAgentsMd)),
    At("CLAUDE.md", FileNode(LongClaudeMd)),
    At("mcp.json", FileNode(McpTwoServers)),
    At(".mcp.json", FileNode(McpMalformed)),
    At(".mcp.json", FileNode(McpTwoServers)),
    At("prompts", DirNode) @@ At("prompts/review.prompt.md", FileNode(PromptText)),
    At("package.json", FileNode(PkgTwoScripts)),
    At("Makefile", FileNode(MakefileTest)),
    At("src", DirNode) @@ At("src/AGENTS.md", FileNode(ThinAgentsMd)),
    At(".continue", DirNode) }

\* The directory of the first scan holds at most MaxSeed of them.
MaxSeed == 1

InitGrow ==
  /\ \E n \in 0..MaxSeed :
       \E c \in [1..n -> GrowFragments] : Compatible(c) /\ rootDir = TreeOf(c)
  /\ auditsDir = HygieneListing
  /\ ScanIdle
  /\ findings = <<>>
  /\ pc = "scan"
  /\ CliIdle
  /\ Standalone

\* Between two scans an entry is added to the root of the directory; every
\* entry that was there is left as it was.
Grow ==
  /\ pc = "done"
  /\ previous.scans = 0
  /\ \E g \in GrowFragments :
       /\ DOMAIN g \cap DOMAIN rootDir = {}
       /\ rootDir' = g @@ rootDir
  /\ previous' = [findings |-> findings, gitLog |-> gitLog, scans |-> 1]
  /\ audits' = <<>>
  /\ customHandlers' = NoHandlers
  /\ deep' = NoDeep
  /\ events' = <<>>
  /\ cursor' = 0
  /\ findings' = <<>>
  /\ pc' = "scan"
  /\ UNCHANGED <<auditsDir, gitLog, cliVars, toolVars>>

SpecGrow == InitGrow /\ [][ScanNext \/ Grow \/ ScanReturn]_vars

---------------------------------------------------------------------------
(* Claims about repeated scans and about the empty directory.              *)

\* The checks that read the git history.
GitChecks == {"commit-messages", "conventional-commits"}

OtherThanGit(fs) == SelectSeq(fs, LAMBDA f : f.id \notin GitChecks)

Rescanned == pc = "done" /\ previous.scans = 1

NoneFound(fs) == \A i \in 1..Len(fs) : ~fs[i].found

\* C12 (as stated): scanning an empty directory yields found = false for
\* every check of every loaded module, and score() gives earnedPoints = 0,
\* normalized = 0 and grade F.
C12_EmptyDirectoryScoresZero ==
  (rootDir = EmptyTree /\ pc = "scored") =>
    /\ NoneFound(findings)
    /\ result.earnedPoints = 0 /\ result.normalized = 0 /\ result.grade = "F"

\* C12 (amended): scanning an empty directory yields found = false for
\* every check other than commit-messages and conventional-commits, which
\* judge the commits git log prints there; when it prints none, every
\* check is found = false and score() gives earnedPoints = 0,
\* normalized = 0 and grade F.
C12_EmptyDirectoryButGit ==
  (rootDir = EmptyTree /\ pc \in {"done", "scanned", "scored"}) =>
    /\ Len(findings) = Len(AllChecks(audits))
    /\ NoneFound(OtherThanGit(findings))
    /\ getRecentCommits(gitLog) = <<>> => NoneFound(findings)
    /\ (pc = "scored" /\ getRecentCommits(gitLog) = <<>>) =>
         /\ result.earnedPoints = 0 /\ result.maxPoints > 0
         /\ result.normalized = 0 /\ result.grade = "F"

C12_Witness ==
  /\ rootDir = EmptyTree
  /\ pc = "scored"
  /\ gitLog = Thrown
  /\ Len(findings) = 19
  /\ NoneFound(findings)
  /\ result.maxPoints = 73 /\ result.earnedPoints = 0 /\ result.grade = "F"

---------------------------------------------------------------------------
(* Claims about the section breakdown.                                     *)

\* The sum of a field (earned or max) over the buckets named in names.
RECURSIVE BucketTotal(_, _, _)
BucketTotal(secs, names, field) ==
  IF names = {} THEN 0
  ELSE LET s == CHOOSE x \in names : TRUE
       IN  secs[s][field] + BucketTotal(secs, names \ {s}, field)

RECURSIVE ItemsTotal(_, _)
ItemsTotal(secs, names) ==
  IF names = {} THEN 0
  ELSE LET s == CHOOSE x \in names : TRUE
       IN  Len(secs[s].items) + ItemsTotal(secs, names \ {s})

---------------------------------------------------------------------------
(* Claims about the per-tool scores.                                       *)

ToolsScored == pc \in {"tools", "requested"}

\* The ids of a list.
Ids(xs) == {xs[i] : i \in 1..Len(xs)}

\* The ids of a list whose last finding is found.
FoundIds(xs) ==
  {x \in Ids(xs) :
     \E i \in 1..Len(findings) :
       /\ findings[i].id = x /\ findings[i].found
       /\ \A j \in (i + 1)..Len(findings) : findings[j].id # x}

\* C14: a check id listed in notApplicable never contributes to the
\* maximum of a tool score (max), even when the same id is also listed
\* in required or valuable of the profile.
C14_NotApplicableOutOfMax ==
  ToolsScored =>
    \A k \in DOMAIN toolScores.toolScores :
      LET profile == TOOL_PROFILES(addedProfiles)[k]
          na == Ids(profile.notApplicable)
      IN  toolScores.toolScores[k].max =
            2 * Cardinality(Ids(profile.required) \ na)
              + Cardinality(Ids(profile.valuable) \ na)

HasRequired(k) ==
  Ids(TOOL_PROFILES(addedProfiles)[k].required)
    \subseteq FoundIds(TOOL_PROFILES(addedProfiles)[k].required)

\* C16 (as stated): detectConfiguredTools reports a profile as in use if
\* and only if all of its required checks are found, or one of its
\* valuable checks whose id equals the profile key or starts with the key
\* followed by '-' is found.
C16_InUseIffRequiredOrNamespaced ==
  pc = "tools" =>
    \A k \in DOMAIN TOOL_PROFILES(addedProfiles) :
      k \in Ids(toolScores.configuredTools) <=>
        \/ HasRequired(k)
        \/ \E id \in FoundIds(TOOL_PROFILES(addedProfiles)[k].valuable) :
             id = k \/ (Len(id) > Len(k) /\ SubSeq(id, 1, Len(k) + 1) = k \o "-")

\* C16 (amended): detectConfiguredTools reports a profile as in use if and
\* only if all of its required checks are found, or one of its valuable
\* checks whose id starts with the profile key is found; the profiles in
\* use are listed once each, in the order of the keys of TOOL_PROFILES.
C16_InUseIffRequiredOrPrefixed ==
  pc = "tools" =>
    LET keys == getToolKeys(addedProfiles)
        conf == toolScores.configuredTools
    IN  /\ \A k \in DOMAIN TOOL_PROFILES(addedProfiles) :
             k \in Ids(conf) <=>
               \/ HasRequired(k)
               \/ \E id \in FoundIds(TOOL_PROFILES(addedProfiles)[k].valuable) :
                    Len(id) >= Len(k) /\ SubSeq(id, 1, Len(k)) = k
        /\ \A i, j \in 1..Len(conf) :
             i < j => \E a, b \in 1..Len(keys) :
                        a < b /\ keys[a] = conf[i] /\ keys[b] = conf[j]
        /\ DOMAIN toolScores.toolScores = Ids(conf)
        /\ toolScores.totalTools = Len(keys)

C16_Witness ==
  /\ pc = "tools"
  /\ addedProfiles = <<>>
  /\ Len(findings) = 3
  /\ findings[1].id = "has-any-agent-tool" /\ ~findings[1].found
  /\ findings[2].id = "cursorrules" /\ ~findings[2].found
  /\ findings[3].id = "cursorignore" /\ findings[3].found
  /\ toolScores.configuredTools = << "cursor" >>

---------------------------------------------------------------------------
(* Claims about the loader and the progress events.                        *)

Listed(file) == \E i \in 1..Len(auditsDir) : auditsDir[i] = file

\* C17: loading two audit modules that declare the same check id is
\* detected at load time, so that a scan never goes on to produce two
\* findings with the same id.
C17_NoTwoFindingsShareAnId ==
  \A i, j \in 1..Len(findings) : i # j => findings[i].id # findings[j].id

\* C18: if an audit module is malformed (its import fails, or it lacks the
\* export section or checks), the whole scan aborts with a load-time
\* error: no check is evaluated, no event emitted, no finding returned.
C18_MalformedModuleAborts ==
  (Listed("broken.mjs") \/ Listed("no-checks.mjs") \/ Listed("no-section.mjs")) =>
    /\ pc \in {"scan", "threw"}
    /\ findings = <<>>
    /\ events = <<>>

\* The events of a completed scan over the checks cs.
ExpectedEvents(cs) ==
  << [phase |-> "deep-scan"],
     [phase |-> "deep-scan-done", filesScanned |-> deep.filesScanned,
      dirsScanned |-> deep.dirsScanned] >>
  \o [i \in 1..Len(cs) |->
        [phase |-> "checking", current |-> i, total |-> Len(cs), label |-> cs[i].label]]
  \o << [phase |-> "done", total |-> Len(cs)] >>

\* C20: a scan over N checks whose modules load emits one deep-scan event,
\* one deep-scan-done event, N checking events with current = 1, ..., N
\* and total = N in check order, and one done event with total = N, in
\* this order; before done the scan always has a next step to take, and
\* after done nothing is emitted. A scan whose modules do not load emits
\* nothing.
C20_ProgressEvents ==
  LET cs == AllChecks(audits)
  IN  /\ pc \in {"scan", "analyzing", "threw"} => events = <<>>
      /\ loadRejects(auditsDir) <=> pc \in {"scan", "threw"} /\ (pc = "scan" => Listed("broken.mjs"))
      /\ pc = "checking" =>
           /\ Len(findings) <= Len(cs)
           /\ events = SubSeq(ExpectedEvents(cs), 1, 2 + Len(findings))
      /\ pc \in {"done", "scanned"} =>
           /\ Len(findings) = Len(cs)
           /\ events = ExpectedEvents(cs)
      /\ pc \in {"scan", "analyzing", "checking"} => NextStepReady

C20_Witness ==
  /\ pc = "scanned"
  /\ Listed("security.mjs") /\ Listed("no-section.mjs")
  /\ Len(findings) = 22
  /\ Len(events) = 25
  /\ events[3].current = 1 /\ events[3].total = 22
  /\ events[24].current = 22 /\ events[24].label = "CODEOWNERS"
  /\ events[25] = [phase |-> "done", total |-> 22]

---------------------------------------------------------------------------
(* Claims about the agent configuration checks.                            *)

\* C19: has-any-agent-tool is found whenever one of the weight-0 tool
\* checks of the Agent Configs module is found in the same scan.
C19_AnyToolConfigFound ==
  (pc \in {"done", "scanned"} /\ Len(findings) > 0
     /\ findings[1].id = "has-any-agent-tool") =>
    ((\E i \in 2..Len(findings) :
        /\ findings[i].section = "Agent Configs"
        /\ findings[i].weight = 0
        /\ findings[i].found)
       => findings[1].found)

---------------------------------------------------------------------------
(* Claims about the scripts check.                                         *)

Desired == <<"start", "test", "lint">>

\* The package.json of the scanned directory, parsed: undefined when it is
\* missing, unreadable or not JSON.
PackageOf(t) ==
  IF existsSync(t, <<"package.json">>) /\ t[<<"package.json">>].kind = "file"
       /\ t[<<"package.json">>].readable
  THEN t[<<"package.json">>].content.json ELSE JUndefined

\* The command x is a script of package.json or a target of the Makefile.
Available(t, x) ==
  \/ /\ PackageOf(t).t = "object"
     /\ JTruthy(JGet(JGet(PackageOf(t), "scripts"), x))
  \/ /\ existsSync(t, <<"Makefile">>)
     /\ x \in TargetsOf(t[<<"Makefile">>].content)

ScriptsFinding == findings[CHOOSE i \in 1..Len(findings) : findings[i].id = "scripts"]

ScriptsEvaluated ==
  pc \in {"done", "scanned"} /\ \E i \in 1..Len(findings) : findings[i].id = "scripts"

\* C21: scripts is found if and only if at least two of start, test and
\* lint are available as a script of package.json or as a target of the
\* Makefile; each is counted at most once, so that N of 'N/3' is at most
\* 3, and with all three in package.json the detail starts with '3/3 ('.
C21_ScriptsFoundIffTwoAvailable ==
  ScriptsEvaluated =>
    LET f == ScriptsFinding
        available == SelectSeq(Desired, LAMBDA x : Available(rootDir, x))
    IN  /\ f.found <=> Len(available) >= 2
        /\ Len(f.matches) <= 3
        /\ Len(f.matches) = Len(available)
        /\ (PackageOf(rootDir).t = "object"
              /\ \A i \in 1..3 :
                   JTruthy(JGet(JGet(PackageOf(rootDir), "scripts"), Desired[i])))
             => f.found /\ SubSeq(f.detail, 1, 5) = "3/3 ("

\* C29: each of start, test and lint is either counted among the found
\* commands or named in the missing list of the detail, whether
\* package.json is present, absent or unparsable: when N < 3 commands are
\* found (and the detail shows the list, 0 < N < 2), the list names
\* exactly the other 3 - N.
C29_MissingNamesTheRest ==
  ScriptsEvaluated =>
    LET f == ScriptsFinding
        Counted(x) == \E i \in 1..Len(f.matches) :
                        f.matches[i] \in {"npm run " \o x, "make " \o x}
        rest == SelectSeq(Desired, LAMBDA x : ~Counted(x))
    IN  Len(f.matches) = 1 =>
          f.detail = "1/3 - missing: " \o JoinWith(rest, ", ")

---------------------------------------------------------------------------
(* Claims about the MCP server count.                                      *)

\* What the first of .mcp.json and mcp.json that exists parses to;
\* undefined when neither exists.
FirstMcpConfig(t) ==
  LET Parsed(p) == IF t[p].kind = "file" /\ t[p].readable THEN t[p].content.json
                   ELSE JSyntaxError
  IN  IF existsSync(t, <<".mcp.json">>) THEN Parsed(<<".mcp.json">>)
      ELSE IF existsSync(t, <<"mcp.json">>) THEN Parsed(<<"mcp.json">>)
      ELSE JUndefined

\* The names of the servers a configuration configures: the keys of its
\* mcpServers, else of its servers, else its own.
ServerNames(config) ==
  IF config.t # "object" THEN <<>>
  ELSE IF JGet(config, "mcpServers").t = "object" THEN JGet(config, "mcpServers").keys
  ELSE IF JGet(config, "servers").t = "object" THEN JGet(config, "servers").keys
  ELSE config.keys

McpFinding == findings[CHOOSE i \in 1..Len(findings) : findings[i].id = "mcp-json-quality"]

McpEvaluated ==
  pc \in {"done", "scanned"}
    /\ \E i \in 1..Len(findings) : findings[i].id = "mcp-json-quality"

\* C22: mcp-json-quality is found if and only if the first of .mcp.json
\* and mcp.json that exists parses as JSON and configures at least two
\* servers; with three servers the detail mentions '3 server(s)'; content
\* that does not parse gives found = false.
C22_McpServerCount ==
  McpEvaluated =>
    LET f      == McpFinding
        config == FirstMcpConfig(rootDir)
        n      == Len(ServerNames(config))
    IN  /\ f.found <=> n >= 2
        /\ n = 3 => Includes(f.detail, "3 server(s)")
        /\ config.t = "SyntaxError" => ~f.found

C22_Witness ==
  /\ McpEvaluated
  /\ existsSync(rootDir, <<".mcp.json">>)
  /\ FirstMcpConfig(rootDir).t = "SyntaxError"
  /\ existsSync(rootDir, <<"mcp.json">>)
  /\ rootDir[<<"mcp.json">>].kind = "file" /\ rootDir[<<"mcp.json">>].readable
  /\ Len(ServerNames(rootDir[<<"mcp.json">>].content.json)) = 3
  /\ ~McpFinding.found

---------------------------------------------------------------------------
(* Claims about the steps of a scan.                                       *)

\* C23: a scan never modifies the target: no step of scan() (loading,
\* analyzers, deep walk, check evaluation, return) changes the files and
\* directories under the scanned root or their contents.
C23_ScanLeavesTargetUnchanged == [][rootDir' = rootDir]_vars

\* A scan that read files of the target has returned.
C23_Witness ==
  /\ pc = "done"
  /\ previous.scans = 1
  /\ \E p \in DOMAIN rootDir : p # <<>> /\ rootDir[p].kind = "file"
  /\ \E i \in 1..Len(findings) : findings[i].type = "custom" /\ findings[i].found

\* The table of the custom results of the first n audits: what each
\* analyze() returned, a later module's entry replacing an earlier one of
\* the same key.
RECURSIVE TableOf(_, _, _, _)
TableOf(as, t, log, n) ==
  IF n = 0 THEN NoHandlers
  ELSE IF as[n].analyze THEN analyze(as[n], t, log) @@ TableOf(as, t, log, n - 1)
  ELSE TableOf(as, t, log, n - 1)

\* C24: during one scan analyze() of every module that has one is invoked
\* exactly once (each turn of the loop takes the next module and adds its
\* results), and all analyzers have completed before the first check is
\* evaluated: a finding is only pushed when the table holds the results of
\* all modules, and the table no longer changes.
C24_AnalyzersOnceBeforeChecks ==
  [][ /\ cursor' # cursor =>
           /\ pc = "analyzing" /\ cursor < Len(audits) /\ cursor' = cursor + 1
           /\ customHandlers' = TableOf(audits, rootDir, gitLog, cursor')
      /\ customHandlers' # customHandlers => cursor' = cursor + 1 /\ findings' = <<>>
      /\ findings' # findings =>
           /\ cursor = Len(audits)
           /\ customHandlers = TableOf(audits, rootDir, gitLog, Len(audits))
           /\ customHandlers' = customHandlers ]_vars

\* Checks are being evaluated after the analyzers of several modules, and
\* one module has none.
C24_Witness ==
  /\ pc = "checking"
  /\ \E i \in 1..Len(findings) : findings[i].type = "custom"
  /\ \E i \in 1..Len(audits) : ~audits[i].analyze
  /\ Cardinality({i \in 1..Len(audits) : audits[i].analyze}) >= 2

---------------------------------------------------------------------------
(* Claims about prompts and skills.                                        *)

\* C25: has-any-prompt-or-skill is found when the deep scan of the same
\* run found at least one SKILL.md, .prompt.md or .prompt.yml file, even if
\* none of the prompt directories exists.
C25_DeepHitsCountAsPrompt ==
  (pc \in {"done", "scanned"}
     /\ \E p \in {"SKILL.md", ".prompt.md", ".prompt.yml"} :
          p \in DOMAIN deep.results /\ Len(deep.results[p]) > 0)
    => \E i \in 1..Len(findings) :
         findings[i].id = "has-any-prompt-or-skill" /\ findings[i].found

---------------------------------------------------------------------------
(* Claims about the findings of contributed modules.                       *)

ScanFinished == pc \in {"done", "scanned"}

\* C26: every finding carries id, label, section, weight and type of its
\* check definition unchanged, whatever the custom result of the owning
\* module contains: the merge only adds fields.
C26_DefinitionFieldsUnchanged ==
  ScanFinished =>
    \A i \in 1..Len(findings) :
      LET check == AllChecks(audits)[i]
      IN  \A k \in {"id", "label", "section", "weight", "type"} :
            k \in DOMAIN findings[i] /\ findings[i][k] = check[k]

\* C28: for every pattern the match list of the deep walker holds each
\* relative path at most once, also when several checks register the same
\* deepPattern, so that the N of 'N file(s) found' is the number of
\* distinct matching files.
C28_EachMatchOnce ==
  ScanFinished =>
    /\ \A p \in DOMAIN deep.results :
         \A i, j \in 1..Len(deep.results[p]) :
           deep.results[p][i] = deep.results[p][j] => i = j
    /\ \A i \in 1..Len(findings) :
         findings[i].type = "deep-scan" /\ findings[i].found =>
           findings[i].detail =
             ToString(Cardinality({findings[i].matches[k] :
                                     k \in 1..Len(findings[i].matches)}))
               \o " file(s) found"

---------------------------------------------------------------------------
(* Claims about the exit status and the grade.                             *)

\* C27: the exit status agrees with the reported grade: the process exits
\* 1 exactly when the grade is D or F, and 0 exactly when it is C or
\* better.
C27_ExitStatusAgreesWithGrade ==
  pc = "exited" =>
    /\ exitCode = 1 <=> result.grade \in {"D", "F"}
    /\ exitCode = 0 <=> result.grade \in {"C", "B", "A", "A+"}

---------------------------------------------------------------------------
(* Claims about scans of a growing directory.                              *)

\* The second scan, of the directory with the added entry, has returned.
Regrown == pc \in {"done", "scanned"} /\ previous.scans = 1

\* The checks that judge the content of one file chosen among candidates.
QualityChecks == {"agents-md-quality", "mcp-json-quality", "readme-quality"}

=============================================================================
